---------------------------- MODULE Spec2Model ----------------------------
(***************************************************************************)
(* Verification model of the configuration, proxy-specification and        *)
(* filtering-rule subsystem of SSLproxy (opts.c, filter.c).                *)
(*                                                                         *)
(* opts.c is modelled from its source (src/unnamed/part_000).  filter.c    *)
(* is not part of the source tree at hand: the rule parser follows the     *)
(* rule grammar of sslproxy.conf(5) and the filter compiler follows the    *)
(* reference outputs of the filter unit tests (src/unnamed/part_001).      *)
(***************************************************************************)
EXTENDS Integers, Sequences, FiniteSets, TLC

(***************************************************************************)
(* Strings.  C strings are TLA+ strings; strcmp() is computed character by *)
(* character over the ASCII codes of the characters the inputs use.        *)
(***************************************************************************)
Chars == << "!", "$", "*", ".", "0", "1", "2", "3", "4", "5", "6", "7", "8",
            "9", "a", "b", "c", "d", "e", "f", "g", "h", "i", "j", "k", "l",
            "m", "n", "o", "p", "q", "r", "s", "t", "u", "v", "w", "x", "y",
            "z" >>

\* Position of a character in Chars: Chars lists the characters in ASCII order.
CharOrd(c) == CHOOSE k \in 1..Len(Chars) : Chars[k] = c

CharAt(s, k) == SubSeq(s, k, k)

RECURSIVE StrcmpFrom(_, _, _)
StrcmpFrom(a, b, k) ==
    IF k > Len(a) /\ k > Len(b) THEN 0
    ELSE IF k > Len(a) THEN -1
    ELSE IF k > Len(b) THEN 1
    ELSE IF CharAt(a, k) = CharAt(b, k) THEN StrcmpFrom(a, b, k + 1)
    ELSE IF CharOrd(CharAt(a, k)) < CharOrd(CharAt(b, k)) THEN -1 ELSE 1

Strcmp(a, b) == StrcmpFrom(a, b, 1)

LastChar(s) == IF Len(s) = 0 THEN "" ELSE CharAt(s, Len(s))
FirstChar(s) == IF Len(s) = 0 THEN "" ELSE CharAt(s, 1)
DropLast(s) == SubSeq(s, 1, Len(s) - 1)
DropFirst(s) == SubSeq(s, 2, Len(s))

(***************************************************************************)
(* Filter rules: the one-line rule grammar of sslproxy.conf(5)             *)
(*   (Divert|Split|Pass|Block|Match)                                       *)
(*    ([from (user U [desc D] | desc D | ip I | * )]                       *)
(*     [to ((sni|cn|host|uri|ip) S [port P] | port P | * )]                *)
(*     [log (channels | $macro | [!]* )] | * )                             *)
(* A rule text is the sequence of its blank-separated tokens.              *)
(***************************************************************************)
Actions == {"Divert", "Split", "Pass", "Block", "Match"}
LogNames == <<"connect", "master", "cert", "content", "pcap", "mirror">>
Channels == {"ip", "sni", "cn", "host", "uri"}

Range(f) == {f[k] : k \in DOMAIN f}
IsMacro(t) == FirstChar(t) = "$"
IsLogToken(t) ==
    \/ t \in Range(LogNames) \/ t \in {"*", "!*"}
    \/ (FirstChar(t) = "!" /\ DropFirst(t) \in Range(LogNames))
    \/ IsMacro(t)

\* The token at position i, "" when the text ends before it.
Tok(toks, i) == IF i <= Len(toks) THEN toks[i] ELSE ""

NoClauses ==
    [err |-> FALSE,
     has_user |-> FALSE, user |-> "", has_desc |-> FALSE, desc |-> "",
     has_ip |-> FALSE, ip |-> "",
     chan |-> "", has_site |-> FALSE, site |-> "",
     has_port |-> FALSE, port |-> "",
     has_log |-> FALSE, logs |-> <<>>]

Failed(c) == [c EXCEPT !.err = TRUE]

\* The log tokens that follow position i, up to the end or the next clause keyword.
RECURSIVE LogTokensFrom(_, _)
LogTokensFrom(toks, i) ==
    IF i > Len(toks) \/ toks[i] \in {"from", "to", "log"} THEN <<>>
    ELSE <<toks[i]>> \o LogTokensFrom(toks, i + 1)

\* from (user U [desc D] | desc D | ip I | *): the clauses and the next position.
ParseFrom(toks, i, c) ==
    LET k == Tok(toks, i + 1)
        v == Tok(toks, i + 2)
    IN  IF k = "*" THEN [c |-> c, i |-> i + 2]
        ELSE IF k \notin {"user", "desc", "ip"} \/ v = "" THEN [c |-> Failed(c), i |-> i]
        ELSE IF k = "ip" THEN [c |-> [c EXCEPT !.has_ip = TRUE, !.ip = v], i |-> i + 3]
        ELSE IF k = "desc" THEN [c |-> [c EXCEPT !.has_desc = TRUE, !.desc = v], i |-> i + 3]
        ELSE IF Tok(toks, i + 3) # "desc"
             THEN [c |-> [c EXCEPT !.has_user = TRUE, !.user = v], i |-> i + 3]
        ELSE IF Tok(toks, i + 4) = "" THEN [c |-> Failed(c), i |-> i]
        ELSE [c |-> [c EXCEPT !.has_user = TRUE, !.user = v,
                              !.has_desc = TRUE, !.desc = Tok(toks, i + 4)],
              i |-> i + 5]

\* to ((sni|cn|host|uri|ip) S [port P] | port P | *)
ParseTo(toks, i, c) ==
    LET k == Tok(toks, i + 1)
        v == Tok(toks, i + 2)
    IN  IF k = "*" THEN [c |-> c, i |-> i + 2]
        ELSE IF (k \notin Channels /\ k # "port") \/ v = "" THEN [c |-> Failed(c), i |-> i]
        ELSE IF k = "port" THEN [c |-> [c EXCEPT !.has_port = TRUE, !.port = v], i |-> i + 3]
        ELSE IF Tok(toks, i + 3) # "port"
             THEN [c |-> [c EXCEPT !.chan = k, !.has_site = TRUE, !.site = v], i |-> i + 3]
        ELSE IF Tok(toks, i + 4) = "" THEN [c |-> Failed(c), i |-> i]
        ELSE [c |-> [c EXCEPT !.chan = k, !.has_site = TRUE, !.site = v,
                              !.has_port = TRUE, !.port = Tok(toks, i + 4)],
              i |-> i + 5]

\* log (channels | $macro | [!]*)
ParseLog(toks, i, c) ==
    LET ls == LogTokensFrom(toks, i + 1)
    IN  IF ls = <<>> \/ \E k \in 1..Len(ls) : ~IsLogToken(ls[k])
        THEN [c |-> Failed(c), i |-> i]
        ELSE [c |-> [c EXCEPT !.has_log = TRUE, !.logs = ls], i |-> i + 1 + Len(ls)]

RECURSIVE ParseClauses(_, _, _)
ParseClauses(toks, i, c) ==
    IF c.err \/ i > Len(toks) THEN c
    ELSE IF toks[i] = "*" THEN ParseClauses(toks, i + 1, c)
    ELSE LET r == CASE toks[i] = "from" -> ParseFrom(toks, i, c)
                    [] toks[i] = "to" -> ParseTo(toks, i, c)
                    [] toks[i] = "log" -> ParseLog(toks, i, c)
                    [] OTHER -> [c |-> Failed(c), i |-> i]
         IN  ParseClauses(toks, r.i, r.c)

(***************************************************************************)
(* One concrete rule (filter_rule_t), as filter_rule_str() prints it.      *)
(* A log channel is off (not mentioned), neg (negated, "!connect") or     *)
(* pos (set, "connect").                                                  *)
(***************************************************************************)
LogOff == "off"
LogNeg == "neg"
LogPos == "pos"

NoLog == [n \in Range(LogNames) |-> LogOff]

\* The log channels one log token sets.
LogOfToken(log, t) ==
    CASE t = "*" -> [n \in Range(LogNames) |-> LogPos]
      [] t = "!*" -> [n \in Range(LogNames) |-> LogNeg]
      [] FirstChar(t) = "!" -> [log EXCEPT ![DropFirst(t)] = LogNeg]
      [] OTHER -> [log EXCEPT ![t] = LogPos]

RECURSIVE LogOfTokens(_, _)
LogOfTokens(log, ts) ==
    IF ts = <<>> THEN log ELSE LogOfTokens(LogOfToken(log, Head(ts)), Tail(ts))

\* A value token: "*" is the all-sentinel, a trailing "*" marks a substring.
IsAll(v) == v = "*"
IsExact(v) == v # "" /\ LastChar(v) # "*"
Stored(v) == IF v = "" \/ IsAll(v) THEN "" ELSE IF LastChar(v) = "*" THEN DropLast(v) ELSE v

Bit(b) == IF b THEN 1 ELSE 0

\* Precedence with a point for a Block action.
Precedence_block(name, c) ==
    Bit(c.has_user) + Bit(c.has_user /\ ~IsAll(c.user))
    + Bit(c.has_desc /\ ~IsAll(c.desc))
    + Bit(c.has_ip /\ ~IsAll(c.ip))
    + Bit(c.chan \in {"sni", "cn", "host", "uri"})
    + Bit(c.has_port) + Bit(c.has_log) + Bit(name = "Block")

\* The precedence filter_rule_str() prints in the reference outputs of the
\* filter tests: a user clause counts 1 and a named user 1 more, a description
\* 1, a named source address 1, a target given by sni, cn, host or uri 1 (a
\* target given by ip counts nothing), a port clause 1, a log clause 1; the
\* action counts nothing.
Precedence(name, c) ==
    Bit(c.has_user) + Bit(c.has_user /\ ~IsAll(c.user))
    + Bit(c.has_desc /\ ~IsAll(c.desc))
    + Bit(c.has_ip /\ ~IsAll(c.ip))
    + Bit(c.chan \in {"sni", "cn", "host", "uri"})
    + Bit(c.has_port) + Bit(c.has_log)

\* The rule of one concrete (macro-free) set of clauses.
Translate(name, c) ==
    LET named_user == c.has_user /\ ~IsAll(c.user)
        named_desc == c.has_desc /\ ~IsAll(c.desc)
        named_ip == c.has_ip /\ ~IsAll(c.ip)
        named_site == c.has_site /\ ~IsAll(c.site)
        named_port == c.has_port /\ ~IsAll(c.port)
    IN  [site |-> IF named_site THEN Stored(c.site) ELSE "",
         port |-> IF named_port THEN Stored(c.port) ELSE "",
         ip |-> IF named_ip THEN Stored(c.ip) ELSE "",
         user |-> IF named_user THEN Stored(c.user) ELSE "",
         keyword |-> IF named_desc THEN Stored(c.desc) ELSE "",
         exact_site |-> named_site /\ IsExact(c.site),
         exact_port |-> named_port /\ IsExact(c.port),
         exact_ip |-> named_ip /\ IsExact(c.ip),
         exact_user |-> named_user /\ IsExact(c.user),
         exact_keyword |-> named_desc /\ IsExact(c.desc),
         all_conns |-> ~c.has_user /\ ~c.has_desc /\ ~named_ip,
         all_users |-> (c.has_user \/ c.has_desc) /\ ~named_user,
         all_sites |-> ~named_site,
         all_ports |-> c.has_port /\ ~named_port,
         dstip |-> c.chan \in {"", "ip"},
         sni |-> c.chan \in {"", "sni"},
         cn |-> c.chan \in {"", "cn"},
         host |-> c.chan \in {"", "host"},
         uri |-> c.chan \in {"", "uri"},
         action |-> name,
         log |-> LogOfTokens(NoLog, c.logs),
         precedence |-> Precedence(name, c)]

(***************************************************************************)
(* Macros (Define $name v1 v2 ...) and macro expansion: one rule per       *)
(* combination of macro values, the user varying slowest, then the         *)
(* description, the source address, the site, the port and the log.        *)
(***************************************************************************)
MacroDefined(macro, t) == \E k \in 1..Len(macro) : macro[k].name = t
MacroValues(macro, t) ==
    (CHOOSE m \in Range(macro) : m.name = t).values

\* The values a slot token stands for: a defined macro's values, or itself.
SlotValues(macro, t) ==
    IF ~IsMacro(t) THEN <<t>>
    ELSE IF MacroDefined(macro, t) THEN MacroValues(macro, t) ELSE <<>>

LogIsMacro(c) == c.has_log /\ Len(c.logs) = 1 /\ IsMacro(c.logs[1])
LogValues(macro, c) ==
    IF LogIsMacro(c) THEN SlotValues(macro, c.logs[1]) ELSE <<c.logs>>

HasMacro(c) ==
    \/ IsMacro(c.user) \/ IsMacro(c.desc) \/ IsMacro(c.ip)
    \/ IsMacro(c.site) \/ IsMacro(c.port) \/ LogIsMacro(c)

\* Expand taking only the first value of a port macro.
Expand_first_port(macro, c) ==
    LET U == SlotValues(macro, c.user)
        D == SlotValues(macro, c.desc)
        I == SlotValues(macro, c.ip)
        S == SlotValues(macro, c.site)
        P == IF SlotValues(macro, c.port) = <<>> THEN <<>> ELSE <<SlotValues(macro, c.port)[1]>>
        L == LogValues(macro, c)
        n == Len(U) * Len(D) * Len(I) * Len(S) * Len(P) * Len(L)
        Pick(V, k, inner) == V[((k \div inner) % Len(V)) + 1]
        One(k) ==
            [c EXCEPT
               !.user = Pick(U, k, Len(D) * Len(I) * Len(S) * Len(P) * Len(L)),
               !.desc = Pick(D, k, Len(I) * Len(S) * Len(P) * Len(L)),
               !.ip = Pick(I, k, Len(S) * Len(P) * Len(L)),
               !.site = Pick(S, k, Len(P) * Len(L)),
               !.port = Pick(P, k, Len(L)),
               !.logs = IF LogIsMacro(c) THEN <<Pick(L, k, 1)>> ELSE c.logs]
    IN  [k \in 1..n |-> One(k - 1)]

Expand(macro, c) ==
    LET U == SlotValues(macro, c.user)
        D == SlotValues(macro, c.desc)
        I == SlotValues(macro, c.ip)
        S == SlotValues(macro, c.site)
        P == SlotValues(macro, c.port)
        L == LogValues(macro, c)
        n == Len(U) * Len(D) * Len(I) * Len(S) * Len(P) * Len(L)
        Pick(V, k, inner) == V[((k \div inner) % Len(V)) + 1]
        One(k) ==
            [c EXCEPT
               !.user = Pick(U, k, Len(D) * Len(I) * Len(S) * Len(P) * Len(L)),
               !.desc = Pick(D, k, Len(I) * Len(S) * Len(P) * Len(L)),
               !.ip = Pick(I, k, Len(S) * Len(P) * Len(L)),
               !.site = Pick(S, k, Len(P) * Len(L)),
               !.port = Pick(P, k, Len(L)),
               !.logs = IF LogIsMacro(c) THEN <<Pick(L, k, 1)>> ELSE c.logs]
    IN  [k \in 1..n |-> One(k - 1)]

\* Define: "$name" followed by at least one value.
filter_macro_set(opts, toks) ==
    IF Len(toks) < 2 \/ ~IsMacro(toks[1]) \/ MacroDefined(opts.macro, toks[1])
    THEN [rv |-> -1, opts |-> opts]
    ELSE [rv |-> 0,
          opts |-> [opts EXCEPT !.macro = <<[name |-> toks[1], values |-> Tail(toks)]>> \o @]]

\* No user authentication needed for any rule.
UserAuthOk_always(opts, c) == TRUE

\* A user or description predicate needs user authentication.
UserAuthOk(opts, c) == (c.has_user \/ c.has_desc) => opts.user_auth = 1

\* filter_rule_set(): -1 and no change on an error, else the rules of the
\* text are appended to the rule list; 1 when a macro was expanded, else 0.
filter_rule_set(opts, name, toks) ==
    LET c == ParseClauses(toks, 1, NoClauses)
        cs == Expand(opts.macro, c)
    IN  IF c.err \/ ~UserAuthOk(opts, c) \/ cs = <<>>
        THEN [rv |-> -1, opts |-> opts]
        ELSE [rv |-> IF HasMacro(c) THEN 1 ELSE 0,
              opts |-> [opts EXCEPT !.filter_rules =
                          @ \o [k \in 1..Len(cs) |-> Translate(name, cs[k])]]]

(***************************************************************************)
(* The compiled filter (filter_t), as filter_str() prints it: source       *)
(* buckets, below each a list of site nodes per target channel and         *)
(* exact/substring variant, below a site node its port nodes.  Every list  *)
(* is kept in descending strcmp order of its keys, so the empty key of     *)
(* all_sites and all_ports is last.                                        *)
(***************************************************************************)
NoList ==
    [ip_exact |-> <<>>, ip_substr |-> <<>>, sni_exact |-> <<>>, sni_substr |-> <<>>,
     cn_exact |-> <<>>, cn_substr |-> <<>>, host_exact |-> <<>>, host_substr |-> <<>>,
     uri_exact |-> <<>>, uri_substr |-> <<>>]

NoFilter ==
    [userkeyword_filter_exact |-> <<>>, userkeyword_filter_substr |-> <<>>,
     user_filter_exact |-> <<>>, user_filter_substr |-> <<>>,
     keyword_filter_exact |-> <<>>, keyword_filter_substr |-> <<>>,
     ip_filter_exact |-> <<>>, ip_filter_substr |-> <<>>,
     all_user_filter |-> NoList, all_filter |-> NoList]

\* The position of the node with this key, 0 when there is none.
Find(nodes, key) ==
    IF \E k \in 1..Len(nodes) : nodes[k].key = key
    THEN CHOOSE k \in 1..Len(nodes) : nodes[k].key = key
    ELSE 0

\* A new key appended in declaration order.
InsertPos_append(nodes, key) == Len(nodes) + 1

\* Where a new key goes: before the first node whose key is smaller.
InsertPos(nodes, key) ==
    IF \E k \in 1..Len(nodes) : Strcmp(nodes[k].key, key) < 0
    THEN CHOOSE k \in 1..Len(nodes) :
            /\ Strcmp(nodes[k].key, key) < 0
            /\ \A j \in 1..(k - 1) : Strcmp(nodes[j].key, key) >= 0
    ELSE Len(nodes) + 1

InsertAt(nodes, k, e) ==
    SubSeq(nodes, 1, k - 1) \o <<e>> \o SubSeq(nodes, k, Len(nodes))

\* Change the node with this key by F, adding it first when it is missing.
Upsert(nodes, key, new, F(_)) ==
    LET k == Find(nodes, key)
    IN  IF k # 0 THEN [nodes EXCEPT ![k] = F(@)]
        ELSE InsertAt(nodes, InsertPos(nodes, key), F(new))

\* The later rule's setting of a channel replacing the earlier one.
MergeLog_override(old, new) ==
    [n \in Range(LogNames) |-> IF new[n] # LogOff THEN new[n] ELSE old[n]]

\* Two log settings on one leaf: the channels of both, a negated channel
\* clearing the set one.
MergeLog(old, new) ==
    [n \in Range(LogNames) |->
        IF old[n] = LogNeg \/ new[n] = LogNeg THEN LogNeg
        ELSE IF old[n] = LogPos \/ new[n] = LogPos THEN LogPos
        ELSE LogOff]

\* The rule merged in whatever its precedence.
ApplyLeaf_always(leaf, r) ==
    [leaf EXCEPT !.action = @ \cup {r.action},
                 !.log = MergeLog(@, r.log),
                 !.precedence = r.precedence]

\* A rule reaches a leaf only with a precedence not below the leaf's: its
\* action bit and log are merged in and the leaf takes its precedence.
ApplyLeaf(leaf, r) ==
    IF r.precedence >= leaf.precedence
    THEN [leaf EXCEPT !.action = @ \cup {r.action},
                      !.log = MergeLog(@, r.log),
                      !.precedence = r.precedence]
    ELSE leaf

HasPort(r) == r.port # "" \/ r.all_ports

NewPort(r) ==
    [key |-> r.port, all |-> r.all_ports, exact |-> r.exact_port,
     action |-> {}, log |-> NoLog, precedence |-> 0]

NewSite(r) ==
    [key |-> r.site, all |-> r.all_sites, exact |-> r.exact_site,
     action |-> {}, log |-> NoLog, precedence |-> 0,
     port_exact |-> <<>>, port_substr |-> <<>>]

\* The rule on one site node: on the node itself, or on its port node.
ApplySite(s, r) ==
    IF ~HasPort(r) THEN ApplyLeaf(s, r)
    ELSE IF r.exact_port
    THEN [s EXCEPT !.port_exact = Upsert(@, r.port, NewPort(r), LAMBDA p : ApplyLeaf(p, r))]
    ELSE [s EXCEPT !.port_substr = Upsert(@, r.port, NewPort(r), LAMBDA p : ApplyLeaf(p, r))]

\* The target channels a rule applies to.
ChanOn(r) ==
    (IF r.dstip THEN {"ip"} ELSE {}) \cup (IF r.sni THEN {"sni"} ELSE {})
    \cup (IF r.cn THEN {"cn"} ELSE {}) \cup (IF r.host THEN {"host"} ELSE {})
    \cup (IF r.uri THEN {"uri"} ELSE {})

ListsOf(r) == {ch \o (IF r.exact_site THEN "_exact" ELSE "_substr") : ch \in ChanOn(r)}

\* The rule on the site lists below one source bucket.
ApplyList(fl, r) ==
    [n \in DOMAIN fl |->
        IF n \in ListsOf(r)
        THEN Upsert(fl[n], r.site, NewSite(r), LAMBDA s : ApplySite(s, r))
        ELSE fl[n]]

ApplyNodes(nodes, key, r) ==
    Upsert(nodes, key, [key |-> key, list |-> NoList],
           LAMBDA n : [n EXCEPT !.list = ApplyList(@, r)])

ApplyUser(u, r) ==
    IF r.exact_keyword
    THEN [u EXCEPT !.keyword_exact = ApplyNodes(@, r.keyword, r)]
    ELSE [u EXCEPT !.keyword_substr = ApplyNodes(@, r.keyword, r)]

\* A named user's rule filed under the user alone, its description dropped.
Bucket_user_only(r) ==
    CASE r.user # "" ->
            IF r.exact_user THEN "user_filter_exact" ELSE "user_filter_substr"
      [] r.user = "" /\ r.keyword # "" ->
            IF r.exact_keyword THEN "keyword_filter_exact" ELSE "keyword_filter_substr"
      [] r.user = "" /\ r.keyword = "" /\ r.all_users -> "all_user_filter"
      [] r.user = "" /\ r.keyword = "" /\ ~r.all_users /\ r.ip # "" ->
            IF r.exact_ip THEN "ip_filter_exact" ELSE "ip_filter_substr"
      [] OTHER -> "all_filter"

\* The one source bucket a rule is compiled into.
Bucket(r) ==
    CASE r.user # "" /\ r.keyword # "" ->
            IF r.exact_user THEN "userkeyword_filter_exact" ELSE "userkeyword_filter_substr"
      [] r.user # "" /\ r.keyword = "" ->
            IF r.exact_user THEN "user_filter_exact" ELSE "user_filter_substr"
      [] r.user = "" /\ r.keyword # "" ->
            IF r.exact_keyword THEN "keyword_filter_exact" ELSE "keyword_filter_substr"
      [] r.user = "" /\ r.keyword = "" /\ r.all_users -> "all_user_filter"
      [] r.user = "" /\ r.keyword = "" /\ ~r.all_users /\ r.ip # "" ->
            IF r.exact_ip THEN "ip_filter_exact" ELSE "ip_filter_substr"
      [] OTHER -> "all_filter"

filter_rule_compile(f, r) ==
    LET b == Bucket(r)
    IN  CASE b \in {"userkeyword_filter_exact", "userkeyword_filter_substr"} ->
                [f EXCEPT ![b] = Upsert(@, r.user,
                                    [key |-> r.user, keyword_exact |-> <<>>, keyword_substr |-> <<>>],
                                    LAMBDA u : ApplyUser(u, r))]
          [] b \in {"user_filter_exact", "user_filter_substr"} ->
                [f EXCEPT ![b] = ApplyNodes(@, r.user, r)]
          [] b \in {"keyword_filter_exact", "keyword_filter_substr"} ->
                [f EXCEPT ![b] = ApplyNodes(@, r.keyword, r)]
          [] b \in {"ip_filter_exact", "ip_filter_substr"} ->
                [f EXCEPT ![b] = ApplyNodes(@, r.ip, r)]
          [] OTHER -> [f EXCEPT ![b] = ApplyList(@, r)]

\* filter_set(): the rules compiled in declaration order.
RECURSIVE filter_set_from(_, _)
filter_set_from(f, rules) ==
    IF rules = <<>> THEN f
    ELSE filter_set_from(filter_rule_compile(f, Head(rules)), Tail(rules))

filter_set(rules) == filter_set_from(NoFilter, rules)

(***************************************************************************)
(* Options (opts_t), as opts.c of a Linux build keeps them.  A string      *)
(* option that is NULL is the empty string.  The options that load         *)
(* certificates and keys from files are left out.                          *)
(***************************************************************************)
IsDigit(ch) == ch \in {"0", "1", "2", "3", "4", "5", "6", "7", "8", "9"}
DigitVal(ch) == CharOrd(ch) - CharOrd("0")

\* A 32-bit word is kept as the pair of its 16-bit halves <<high, low>>.
Half == 65536

\* The leading digits of s from its character k on, as strtol() reads them
\* into a long of 64 bits, of which the conversion to int keeps the low 32.
RECURSIVE AtoiFrom(_, _, _)
AtoiFrom(s, k, acc) ==
    IF k > Len(s) \/ ~IsDigit(CharAt(s, k)) THEN acc
    ELSE AtoiFrom(s, k + 1,
            <<(acc[1] * 10 + (acc[2] * 10 + DigitVal(CharAt(s, k))) \div Half) % Half,
              (acc[2] * 10 + DigitVal(CharAt(s, k))) % Half>>)

\* The digits a long of 64 bits holds for certain; a longer numeral makes
\* strtol() return LONG_MAX or LONG_MIN.
LongDigits == 18
DigitsFrom(s, k) ==
    Cardinality({j \in k..Len(s) : \A i \in k..j : IsDigit(CharAt(s, i))})

\* atoi(): (int) strtol(s, NULL, 10): an optional sign and the leading
\* digits, 0 when there are none.  Int32 is the int a word holds, Neg32 the
\* word of its negation.
atoi(s) ==
    LET Int32(w) ==
            IF w[1] >= Half \div 2 THEN (w[1] - Half) * Half + w[2] ELSE w[1] * Half + w[2]
        Neg32(w) ==
            IF w[2] = 0 THEN <<(Half - w[1]) % Half, 0>>
            ELSE <<Half - 1 - w[1], Half - w[2]>>
    IN
    IF FirstChar(s) = "-"
    THEN IF DigitsFrom(s, 2) > LongDigits THEN 0
         ELSE Int32(Neg32(AtoiFrom(s, 2, <<0, 0>>)))
    ELSE IF FirstChar(s) = "+"
    THEN IF DigitsFrom(s, 2) > LongDigits THEN -1 ELSE Int32(AtoiFrom(s, 2, <<0, 0>>))
    ELSE IF DigitsFrom(s, 1) > LongDigits THEN -1 ELSE Int32(AtoiFrom(s, 1, <<0, 0>>))

\* The numeral s stands for a number that no int holds: what atoi() returns
\* for it is undefined.  Significant is the digits from character k on
\* behind the leading zeros; of two numerals of equal length, Above says the
\* first is the greater.
Overflows(s) ==
    LET Significant(k) ==
            SubSeq(s, CHOOSE j \in k..(Len(s) + 1) :
                            /\ j > Len(s) \/ CharAt(s, j) # "0"
                            /\ \A i \in k..(j - 1) : CharAt(s, i) = "0",
                   k + DigitsFrom(s, k) - 1)
        Above(a, b) ==
            \E k \in 1..Len(a) :
                /\ CharOrd(CharAt(a, k)) > CharOrd(CharAt(b, k))
                /\ \A i \in 1..(k - 1) : CharAt(a, i) = CharAt(b, i)
    IN  \E d \in {Significant(IF FirstChar(s) \in {"-", "+"} THEN 2 ELSE 1)} :
            \/ Len(d) > 10
            \/ Len(d) = 10 /\ Above(d, IF FirstChar(s) = "-" THEN "2147483648"
                                       ELSE "2147483647")

\* The directives of global scope whose setters call atoi() on the value.
AtoiNames ==
    {"UserTimeout", "MaxHTTPHeaderSize", "ConnIdleTimeout", "ExpiredConnCheckPeriod",
     "StatsPeriod", "LeafKeyRSABits", "OpenFilesLimit"}

\* The numerals atoi() can read the value of a directive as: the value, and
\* for a number that no int holds also the numeral of the greatest or least
\* long of 32 bits.
AtoiReadings(name, value) ==
    IF name \in AtoiNames /\ value # <<>> /\ Overflows(Head(value))
    THEN {value,
          <<IF FirstChar(Head(value)) = "-" THEN "-2147483648" ELSE "2147483647">>}
    ELSE {value}

\* unsigned int u = i; lo <= u && u <= hi, for bounds below 2^31: a negative
\* int becomes a value of 2^31 or more, above every such bound.
UnsignedIn(i, lo, hi) == i >= 0 /\ i >= lo /\ i <= hi

\* strstr(s, sub) # NULL
Contains(s, sub) ==
    \E k \in 1..(Len(s) - Len(sub) + 1) : SubSeq(s, k, k + Len(sub) - 1) = sub

\* The string past the first n characters (s + n).
Skip(s, n) == SubSeq(s, n + 1, Len(s))

\* The value of a directive is the sequence of its words.
Word(value) == IF Len(value) = 1 THEN value[1] ELSE ""

\* The options of an Options whose setters load a file or keep a text: of
\* their effect the model keeps the value given, in texts.
OptTexts ==
    {"CACert", "CAKey", "ClientCert", "ClientKey", "CAChain", "LeafCRLURL",
     "DHGroupParams", "ECDHCurve", "ForceSSLProto", "DisableSSLProto", "PassSite"}

\* A value that names what the system does not have: a file, a directory,
\* a user, an interface, a curve, a protocol version.
Missing(value) == value = <<>> \/ Head(value) = "/missing"

opts_new ==
    [divert |-> 1, sslcomp |-> 1, passthrough |-> 0, deny_ocsp |-> 0,
     remove_http_accept_encoding |-> 0, remove_http_referer |-> 1,
     verify_peer |-> 1, allow_wrong_host |-> 0, validate_proto |-> 0,
     user_auth |-> 0, user_timeout |-> 300, max_http_header_size |-> 8192,
     minsslversion |-> "tls10", maxsslversion |-> "tls13",
     ciphers |-> "", ciphersuites |-> "", user_auth_url |-> "",
     divertusers |-> <<>>, passusers |-> <<>>,
     texts |-> [n \in OptTexts |-> ""],
     macro |-> <<>>, filter_rules |-> <<>>]

\* The copy of a user list in global_opts_copy(): every user of src, from its
\* head on, becomes the new head of dst.
RECURSIVE CopyUsers(_, _)
CopyUsers(dst, src) ==
    IF src = <<>> THEN dst ELSE CopyUsers(<<Head(src)>> \o dst, Tail(src))

\* global_opts_copy() with the user timeout left at its default.
global_opts_copy_timeout(g) ==
    [opts_new EXCEPT
        !.divert = g.divert, !.sslcomp = g.sslcomp, !.passthrough = g.passthrough,
        !.deny_ocsp = g.deny_ocsp,
        !.remove_http_accept_encoding = g.remove_http_accept_encoding,
        !.remove_http_referer = g.remove_http_referer,
        !.verify_peer = g.verify_peer, !.allow_wrong_host = g.allow_wrong_host,
        !.user_auth = g.user_auth,
        !.validate_proto = g.validate_proto,
        !.max_http_header_size = g.max_http_header_size,
        !.minsslversion = g.minsslversion, !.maxsslversion = g.maxsslversion,
        !.ciphers = g.ciphers, !.ciphersuites = g.ciphersuites,
        !.user_auth_url = g.user_auth_url,
        !.divertusers = CopyUsers(<<>>, g.divertusers),
        !.passusers = CopyUsers(<<>>, g.passusers),
        !.texts = g.texts,
        !.macro = g.macro, !.filter_rules = g.filter_rules]

\* global_opts_copy(): a new Options with every field of the global one.
global_opts_copy(g) ==
    [opts_new EXCEPT
        !.divert = g.divert, !.sslcomp = g.sslcomp, !.passthrough = g.passthrough,
        !.deny_ocsp = g.deny_ocsp,
        !.remove_http_accept_encoding = g.remove_http_accept_encoding,
        !.remove_http_referer = g.remove_http_referer,
        !.verify_peer = g.verify_peer, !.allow_wrong_host = g.allow_wrong_host,
        !.user_auth = g.user_auth, !.user_timeout = g.user_timeout,
        !.validate_proto = g.validate_proto,
        !.max_http_header_size = g.max_http_header_size,
        !.minsslversion = g.minsslversion, !.maxsslversion = g.maxsslversion,
        !.ciphers = g.ciphers, !.ciphersuites = g.ciphersuites,
        !.user_auth_url = g.user_auth_url,
        !.divertusers = CopyUsers(<<>>, g.divertusers),
        !.passusers = CopyUsers(<<>>, g.passusers),
        !.texts = g.texts,
        !.macro = g.macro, !.filter_rules = g.filter_rules]

\* users_str(): the users of a list, from its head on, joined by commas.
RECURSIVE users_str(_)
users_str(u) ==
    IF u = <<>> THEN ""
    ELSE IF Len(u) = 1 THEN u[1]
    ELSE u[1] \o "," \o users_str(Tail(u))

\* strtok_r() over s: the runs of characters that are no delimiters, in
\* their order.  A run starts behind a delimiter or at the start of s and
\* ends before the next delimiter or at the end of s.
Strtok(s, delims) ==
    LET IsDelim(k) == k < 1 \/ k > Len(s) \/ CharAt(s, k) \in delims
        starts == {k \in 1..Len(s) : ~IsDelim(k) /\ IsDelim(k - 1)}
        EndOf(k) == CHOOSE j \in k..Len(s) :
                        IsDelim(j + 1) /\ \A i \in k..j : ~IsDelim(i)
        Nth(i) == CHOOSE k \in starts : Cardinality({j \in starts : j < k}) = i - 1
    IN  [i \in 1..Cardinality(starts) |-> SubSeq(s, Nth(i), EndOf(Nth(i)))]

\* The tokens of a value, itself the words that blanks and tabs separate,
\* with the delimiters ",", " " and "\t".
RECURSIVE UserTokens(_)
UserTokens(value) ==
    IF value = <<>> THEN <<>>
    ELSE Strtok(Head(value), {",", " ", "\t"}) \o UserTokens(Tail(value))

MAX_USERS == 50

\* The last loop of opts_set_userlist(): argv[argc - 1] down to argv[0], each
\* the new head of the list.
RECURSIVE InsertUsers(_, _, _)
InsertUsers(list, argv, argc) ==
    IF argc = 0 THEN list ELSE InsertUsers(<<argv[argc]>> \o list, argv, argc - 1)

\* opts_set_userlist() that keeps the users the list has.
opts_set_userlist_keep(list, value) ==
    CHOOSE out \in {IF Len(argv) > MAX_USERS \/ argv = <<>> THEN [rv |-> -1, list |-> list]
                    ELSE [rv |-> 0, list |-> InsertUsers(list, argv, Len(argv))] :
                        argv \in {UserTokens(value)}} : TRUE

\* opts_set_userlist(): -1 with more than MAX_USERS names or none, the list
\* untouched; else the names replace the list.
opts_set_userlist(list, value) ==
    CHOOSE out \in {IF Len(argv) > MAX_USERS \/ argv = <<>> THEN [rv |-> -1, list |-> list]
                    ELSE [rv |-> 0, list |-> InsertUsers(<<>>, argv, Len(argv))] :
                        argv \in {UserTokens(value)}} : TRUE

\* A user list option: the field set by opts_set_userlist().
UserList(opts, field, value, nat) ==
    CHOOSE out \in {[rv |-> r.rv, opts |-> [opts EXCEPT ![field] = r.list],
                     natengine |-> nat] :
                        r \in {opts_set_userlist(opts[field], value)}} : TRUE

is_yesno_loose(value) == IF Word(value) = "no" THEN 0 ELSE 1
is_yesno(value) ==
    IF Word(value) = "yes" THEN 1 ELSE IF Word(value) = "no" THEN 0 ELSE -1

\* The NAT engines nat_exist() knows.
NatEngines == {"netfilter", "tproxy"}
nat_exist(name) == name \in NatEngines

\* A yes/no option: the field set to 1 or 0, -1 on any other value.
YesNo(opts, field, value, nat) ==
    IF is_yesno(value) = -1 THEN [rv |-> -1, opts |-> opts, natengine |-> nat]
    ELSE [rv |-> 0, opts |-> [opts EXCEPT ![field] = is_yesno(value)], natengine |-> nat]

\* A string option: the field set to the value.
Str(opts, field, value, nat) ==
    [rv |-> 0, opts |-> [opts EXCEPT ![field] = Word(value)], natengine |-> nat]

\* opts_set_min_proto() / opts_set_max_proto(): the version named, with every
\* protocol version built in; -1 on any other name.
SSLVersions == {"ssl3", "tls10", "tls11", "tls12", "tls13"}
SSLProto(opts, field, value, nat) ==
    LET v == IF Word(value) = "tls1" THEN "tls10" ELSE Word(value)
    IN  IF v \in SSLVersions
        THEN [rv |-> 0, opts |-> [opts EXCEPT ![field] = v], natengine |-> nat]
        ELSE [rv |-> -1, opts |-> opts, natengine |-> nat]

\* The result of a filter function as the result of set_option().
Filtered_flat(r, nat) ==
    [rv |-> IF r.rv = 1 THEN 0 ELSE r.rv, opts |-> r.opts, natengine |-> nat]
Filtered(r, nat) == [rv |-> r.rv, opts |-> r.opts, natengine |-> nat]

\* UserAuth: opts_set_user_auth() / opts_unset_user_auth() set the flag only.
UserAuth(opts, value, nat) == YesNo(opts, "user_auth", value, nat)

\* set_option(): one directive on an Options; nat is the default NAT engine,
\* which NATEngine replaces.  Returns -1, 0 or a filter function's result.
set_option(opts, name, value, nat) ==
    IF value = <<>> THEN [rv |-> -1, opts |-> opts, natengine |-> nat]
    ELSE CASE name = "DenyOCSP" -> YesNo(opts, "deny_ocsp", value, nat)
           [] name = "Passthrough" -> YesNo(opts, "passthrough", value, nat)
           [] name = "SSLCompression" -> YesNo(opts, "sslcomp", value, nat)
           [] name = "MinSSLProto" -> SSLProto(opts, "minsslversion", value, nat)
           [] name = "MaxSSLProto" -> SSLProto(opts, "maxsslversion", value, nat)
           [] name = "Ciphers" -> Str(opts, "ciphers", value, nat)
           [] name = "CipherSuites" -> Str(opts, "ciphersuites", value, nat)
           [] name = "NATEngine" -> [rv |-> 0, opts |-> opts, natengine |-> Word(value)]
           [] name = "UserAuth" -> UserAuth(opts, value, nat)
           [] name = "UserAuthURL" -> Str(opts, "user_auth_url", value, nat)
           [] name = "DivertUsers" -> UserList(opts, "divertusers", value, nat)
           [] name = "PassUsers" -> UserList(opts, "passusers", value, nat)
           [] name = "UserTimeout" ->
                IF UnsignedIn(atoi(Head(value)), 0, 86400)
                THEN [rv |-> 0,
                      opts |-> [opts EXCEPT !.user_timeout = atoi(Head(value))],
                      natengine |-> nat]
                ELSE [rv |-> -1, opts |-> opts, natengine |-> nat]
           [] name = "ValidateProto" -> YesNo(opts, "validate_proto", value, nat)
           [] name = "MaxHTTPHeaderSize" ->
                IF UnsignedIn(atoi(Head(value)), 1024, 65536)
                THEN [rv |-> 0,
                      opts |-> [opts EXCEPT !.max_http_header_size = atoi(Head(value))],
                      natengine |-> nat]
                ELSE [rv |-> -1, opts |-> opts, natengine |-> nat]
           [] name = "VerifyPeer" -> YesNo(opts, "verify_peer", value, nat)
           [] name = "AllowWrongHost" -> YesNo(opts, "allow_wrong_host", value, nat)
           [] name = "RemoveHTTPAcceptEncoding" ->
                YesNo(opts, "remove_http_accept_encoding", value, nat)
           [] name = "RemoveHTTPReferer" -> YesNo(opts, "remove_http_referer", value, nat)
           [] name \in OptTexts ->
                IF Missing(value) THEN [rv |-> -1, opts |-> opts, natengine |-> nat]
                ELSE [rv |-> 0, opts |-> [opts EXCEPT !.texts[name] = Head(value)],
                      natengine |-> nat]
           [] name = "Define" -> Filtered(filter_macro_set(opts, value), nat)
           [] name \in {"Split", "Pass", "Block", "Match"} ->
                Filtered(filter_rule_set(opts, name, value), nat)
           [] name = "Divert" ->
                IF is_yesno(value) = -1
                THEN Filtered(filter_rule_set(opts, name, value), nat)
                ELSE [rv |-> 0, opts |-> [opts EXCEPT !.divert = is_yesno(value)],
                      natengine |-> nat]
           [] OTHER -> [rv |-> -1, opts |-> opts, natengine |-> nat]

(***************************************************************************)
(* The global structure (global_t) but its Options and its listeners.      *)
(***************************************************************************)
\* The options of the global structure whose setters keep a text or a path.
GlobalTexts ==
    {"LeafCertDir", "DefaultLeafCert", "WriteGenCertsDir", "WriteAllCertsDir",
     "User", "Group", "Chroot", "PidFile", "ConnectLog", "ContentLog",
     "ContentLogDir", "ContentLogPathSpec", "MasterKeyLog", "PcapLog", "PcapLogDir",
     "PcapLogPathSpec", "MirrorIf", "MirrorTarget", "DebugLevel", "UserDBPath",
     "LeafKey", "OpenSSLEngine"}

\* The yes/no options of the global structure and their fields.
GlobalFlags ==
    [LogProcInfo |-> "lprocinfo", Daemon |-> "detach", Debug |-> "debug",
     LogStats |-> "statslog"]

\* The numeric options of the global structure: field, least and greatest
\* value.  nofile is the limit of open files, 0 while the process has the
\* limit of the system.
GlobalNumbers ==
    [ConnIdleTimeout |-> [field |-> "conn_idle_timeout", lo |-> 10, hi |-> 3600],
     ExpiredConnCheckPeriod |-> [field |-> "expired_conn_check_period", lo |-> 10, hi |-> 60],
     StatsPeriod |-> [field |-> "stats_period", lo |-> 1, hi |-> 10],
     OpenFilesLimit |-> [field |-> "nofile", lo |-> 50, hi |-> 10000]]

DFLT_LEAFKEY_RSABITS == 2048

\* global_new()
global_new ==
    [leafkey_rsabits |-> DFLT_LEAFKEY_RSABITS, conn_idle_timeout |-> 120,
     expired_conn_check_period |-> 10, stats_period |-> 1, nofile |-> 0,
     lprocinfo |-> 0, detach |-> 0, debug |-> 0, statslog |-> 0,
     texts |-> [n \in GlobalTexts |-> ""]]

\* set_global_option(): a directive that is neither ProxySpec nor Include;
\* what is no option of the global structure goes to set_option() on the
\* global Options.
set_global_option(gl, g, name, value, nat) ==
    LET R(rv, gl2) == [rv |-> rv, global |-> gl2, opts |-> g, natengine |-> nat]
    IN  IF value = <<>> THEN R(-1, gl)
        ELSE CASE name \in GlobalTexts ->
                    IF Missing(value) THEN R(-1, gl)
                    ELSE R(0, [gl EXCEPT !.texts[name] = Head(value)])
               [] name \in DOMAIN GlobalFlags ->
                    IF is_yesno(value) = -1 THEN R(-1, gl)
                    ELSE R(0, [gl EXCEPT ![GlobalFlags[name]] = is_yesno(value)])
               [] name \in DOMAIN GlobalNumbers ->
                    IF UnsignedIn(atoi(Head(value)), GlobalNumbers[name].lo,
                                  GlobalNumbers[name].hi)
                    THEN R(0, [gl EXCEPT ![GlobalNumbers[name].field] = atoi(Head(value))])
                    ELSE R(-1, gl)
               [] name = "LeafKeyRSABits" ->
                    IF atoi(Head(value)) \in {1024, 2048, 3072, 4096}
                    THEN R(0, [gl EXCEPT !.leafkey_rsabits = atoi(Head(value))])
                    ELSE R(-1, gl)
               [] OTHER ->
                    CHOOSE out \in {[rv |-> r.rv, global |-> gl, opts |-> r.opts,
                                     natengine |-> r.natengine] :
                                        r \in {set_option(g, name, value, nat)}} : TRUE

(***************************************************************************)
(* Listeners (proxyspec_t).  An address is kept as the text "addr:port",   *)
(* empty while unset (its addrlen is 0).  own, setting, named and done are *)
(* history: the global options at the listener's declaration, its Divert   *)
(* setting as inherited or as the directives of its block left it, the     *)
(* directives its own block has named, and whether its declaration has     *)
(* been processed to the end.                                              *)
(***************************************************************************)
AF_INET == 2

Protos == {"tcp", "ssl", "http", "https", "autossl", "pop3", "pop3s", "smtp", "smtps"}

RECURSIVE AllCharsFrom(_, _, _)
AllCharsFrom(s, k, set) ==
    k > Len(s) \/ (CharAt(s, k) \in set /\ AllCharsFrom(s, k + 1, set))

\* A dotted IPv4 address, a decimal port.
IsAddr(s) == /\ IsDigit(FirstChar(s)) /\ Contains(s, ".")
             /\ AllCharsFrom(s, 1, {"0", "1", "2", "3", "4", "5", "6", "7", "8", "9", "."})
IsPort(s) == s # "" /\ AllCharsFrom(s, 1, {"0", "1", "2", "3", "4", "5", "6", "7", "8", "9"})

\* sys_sockaddr_parse(): the address family, -1 when addr, port or the
\* family asked for cannot be resolved.
sys_sockaddr_parse(addr, port, af) ==
    IF IsAddr(addr) /\ IsPort(port) /\ af \in {0, AF_INET} THEN AF_INET ELSE -1

sys_get_af(addr) == IF IsAddr(addr) THEN AF_INET ELSE 0

\* proxyspec_new(): a zeroed listener with a copy of the global options.
proxyspec_new(g) ==
    [ssl |-> 0, http |-> 0, upgrade |-> 0, pop3 |-> 0, smtp |-> 0,
     dns |-> 0, sni_port |-> 0,
     listen |-> "", natengine |-> "", conn_dst |-> "", child_src |-> "", connect |-> "",
     opts |-> global_opts_copy(g),
     own |-> g, setting |-> g.divert, named |-> {}, done |-> FALSE]

Ok(spec) == [rv |-> 0, spec |-> spec]
Err(spec) == [rv |-> -1, spec |-> spec]

proxyspec_set_proto(spec, value) ==
    LET z == [spec EXCEPT !.ssl = 0, !.http = 0, !.upgrade = 0, !.pop3 = 0, !.smtp = 0]
    IN  CASE value = "tcp" -> Ok(z)
          [] value = "ssl" -> Ok([z EXCEPT !.ssl = 1])
          [] value = "http" -> Ok([z EXCEPT !.http = 1])
          [] value = "https" -> Ok([z EXCEPT !.ssl = 1, !.http = 1])
          [] value = "autossl" -> Ok([z EXCEPT !.upgrade = 1])
          [] value = "pop3" -> Ok([z EXCEPT !.pop3 = 1])
          [] value = "pop3s" -> Ok([z EXCEPT !.ssl = 1, !.pop3 = 1])
          [] value = "smtp" -> Ok([z EXCEPT !.smtp = 1])
          [] value = "smtps" -> Ok([z EXCEPT !.ssl = 1, !.smtp = 1])
          [] OTHER -> Err(z)

\* Returns the address family, or -1.
proxyspec_set_listen_addr(spec, addr, port, natengine) ==
    LET af == sys_sockaddr_parse(addr, port, sys_get_af(addr))
    IN  IF af = -1 THEN Err(spec)
        ELSE [rv |-> af,
              spec |-> [spec EXCEPT !.listen = addr \o ":" \o port, !.natengine = natengine]]

proxyspec_set_divert_addr(spec, addr, port) ==
    IF sys_sockaddr_parse(addr, port, AF_INET) = -1 THEN Err(spec)
    ELSE Ok([spec EXCEPT !.conn_dst = addr \o ":" \o port])

proxyspec_set_return_addr(spec, addr) ==
    IF sys_sockaddr_parse(addr, "0", AF_INET) = -1 THEN Err(spec)
    ELSE Ok([spec EXCEPT !.child_src = addr \o ":0"])

proxyspec_set_target_addr(spec, addr, port, af) ==
    IF sys_sockaddr_parse(addr, port, af) = -1 THEN Err(spec)
    ELSE Ok([spec EXCEPT !.connect = addr \o ":" \o port, !.natengine = ""])

proxyspec_set_sni_port(spec, port) ==
    IF spec.ssl = 0 THEN Err(spec)
    ELSE IF atoi(port) = 0 THEN Err([spec EXCEPT !.sni_port = 0])
    ELSE Ok([spec EXCEPT !.sni_port = atoi(port), !.dns = 1, !.natengine = ""])

proxyspec_set_natengine(spec, natengine) ==
    IF nat_exist(natengine) THEN Ok([spec EXCEPT !.natengine = natengine])
    ELSE Err(spec)

\* set_divert(): no divert with the split flag or without a divert address.
set_divert(spec, split) ==
    IF split # 0 \/ spec.conn_dst = "" THEN [spec EXCEPT !.opts.divert = 0] ELSE spec

\* The addresses a ProxySpec block has seen (spec_addrs_t).
spec_addrs_new == [addr |-> "", af |-> 0, divert_addr |-> "", target_addr |-> ""]

\* The Port directive with the listen address parsed whether or not an Addr
\* directive has named one.
Port_without_addr(spec, v, nat, addrs) ==
    CHOOSE out \in {[rv |-> 0, spec |-> r.spec, addrs |-> [addrs EXCEPT !.af = r.rv],
                     natengine |-> nat] :
                        r \in {proxyspec_set_listen_addr(spec, addrs.addr, v, nat)}} : TRUE

\* The Port directive of a block: -1 without an address; else the listen
\* address is parsed and the family, or the -1 of a failure, is kept.
Port(spec, v, nat, addrs) ==
    IF addrs.addr = ""
    THEN [rv |-> -1, spec |-> spec, addrs |-> addrs, natengine |-> nat]
    ELSE CHOOSE out \in {[rv |-> 0, spec |-> r.spec,
                          addrs |-> [addrs EXCEPT !.af = r.rv], natengine |-> nat] :
                            r \in {proxyspec_set_listen_addr(spec, addrs.addr, v, nat)}} :
            TRUE

\* set_proxyspec_option(): one line of a ProxySpec block; 2 for the closing
\* brace, else -1, 0 or the result of set_option() on the listener's options.
set_proxyspec_option(spec, name, value, nat, addrs) ==
    LET R(r) == [rv |-> r.rv, spec |-> r.spec, addrs |-> addrs, natengine |-> nat]
        v == Word(value)
    IN  IF value = <<>> /\ name # "}"
        THEN [rv |-> -1, spec |-> spec, addrs |-> addrs, natengine |-> nat]
        ELSE CASE name = "Proto" -> R(proxyspec_set_proto(spec, v))
               [] name = "Addr" ->
                    [rv |-> 0, spec |-> spec, addrs |-> [addrs EXCEPT !.addr = v],
                     natengine |-> nat]
               [] name = "Port" -> Port(spec, v, nat, addrs)
               [] name = "DivertAddr" ->
                    [rv |-> 0, spec |-> spec, addrs |-> [addrs EXCEPT !.divert_addr = v],
                     natengine |-> nat]
               [] name = "DivertPort" ->
                    R(proxyspec_set_divert_addr(spec,
                        IF addrs.divert_addr # "" THEN addrs.divert_addr ELSE "127.0.0.1", v))
               [] name = "ReturnAddr" -> R(proxyspec_set_return_addr(spec, v))
               [] name = "TargetAddr" ->
                    [rv |-> 0, spec |-> spec, addrs |-> [addrs EXCEPT !.target_addr = v],
                     natengine |-> nat]
               [] name = "TargetPort" ->
                    IF addrs.target_addr = ""
                    THEN [rv |-> -1, spec |-> spec, addrs |-> addrs, natengine |-> nat]
                    ELSE R(proxyspec_set_target_addr(spec, addrs.target_addr, v, addrs.af))
               [] name = "SNIPort" -> R(proxyspec_set_sni_port(spec, v))
               [] name = "NatEngine" -> R(proxyspec_set_natengine(spec, v))
               [] name = "}" ->
                    [rv |-> IF addrs.addr = "" \/ addrs.af = 0 THEN -1 ELSE 2,
                     spec |-> spec, addrs |-> addrs, natengine |-> nat]
               [] OTHER ->
                    LET r == set_option(spec.opts, name, value, nat)
                    IN  [rv |-> r.rv, spec |-> [spec EXCEPT !.opts = r.opts],
                         addrs |-> addrs, natengine |-> r.natengine]

MAX_TOKENS == 8

(***************************************************************************)
(* proxyspec_parse(): the state machine over the tokens of a one-line      *)
(* declaration.  ps is its local state: state, argc (the tokens left),     *)
(* argv (the place of the current token), addr, af, and nnew, the          *)
(* listeners created so far.  The newest listener is the head of the list. *)
(***************************************************************************)
parse_new(argc) ==
    [state |-> 0, argc |-> argc, argv |-> 1, addr |-> "", af |-> 0, nnew |-> 0]

WithHead(specs, spec) == <<spec>> \o Tail(specs)

\* After the loop: an incomplete declaration fails; else set_divert() on the
\* listener created last, and the declaration of every listener is done.
parse_end(ps, specs, split) ==
    IF ps.state \notin {0, 3, 4} THEN [rv |-> -1, ps |-> ps, specs |-> specs]
    ELSE [rv |-> 0, ps |-> ps,
          specs |-> [k \in 1..Len(specs) |->
                        IF k > ps.nnew THEN specs[k]
                        ELSE IF k = 1 THEN [set_divert(specs[1], split) EXCEPT !.done = TRUE]
                        ELSE [specs[k] EXCEPT !.done = TRUE]]]

Failing(ps, specs) == [rv |-> -1, ps |-> ps, specs |-> specs]
Going(ps, specs) == [rv |-> 0, ps |-> ps, specs |-> specs]

\* up:port [ua:addr] [ra:addr], looking at the tokens behind the current one.
parse_up(ps, specs, argv) ==
    LET ua == ps.argc > 0 /\ Contains(argv[ps.argv + 1], "ua:")
        p1 == IF ua THEN [ps EXCEPT !.argv = @ + 1, !.argc = @ - 1] ELSE ps
        ra == p1.argc > 0 /\ Contains(argv[p1.argv + 1], "ra:")
        p2 == IF ra THEN [p1 EXCEPT !.argv = @ + 1, !.argc = @ - 1] ELSE p1
        d == proxyspec_set_divert_addr(specs[1],
                 IF ua THEN Skip(argv[p1.argv], 3) ELSE "127.0.0.1", Skip(argv[ps.argv], 3))
        r == proxyspec_set_return_addr(d.spec,
                 IF ra THEN Skip(argv[p2.argv], 3) ELSE "127.0.0.1")
    IN  IF d.rv = -1 THEN Failing(p2, specs)
        ELSE IF r.rv = -1 THEN Failing(p2, WithHead(specs, d.spec))
        ELSE Going(p2, WithHead(specs, r.spec))

\* The rewind without the return to state 0.
parse_target_hold(ps, specs, t, nat) ==
    IF t \in Protos
    THEN Going([ps EXCEPT !.argc = @ + 1, !.argv = @ - 1], specs)
    ELSE IF t = "sni" THEN Going([ps EXCEPT !.state = 6], specs)
    ELSE IF nat_exist(t)
    THEN LET r == proxyspec_set_natengine(specs[1], nat)
         IN  IF r.rv = -1 THEN Failing(ps, specs)
             ELSE Going([ps EXCEPT !.state = 0], WithHead(specs, r.spec))
    ELSE Going([ps EXCEPT !.state = 5, !.addr = t], specs)

\* [ natengine | dstaddr ], or the protocol of the next listener (rewind).
parse_target(ps, specs, t, nat) ==
    IF t \in Protos
    THEN Going([ps EXCEPT !.state = 0, !.argc = @ + 1, !.argv = @ - 1], specs)
    ELSE IF t = "sni" THEN Going([ps EXCEPT !.state = 6], specs)
    ELSE IF nat_exist(t)
    THEN LET r == proxyspec_set_natengine(specs[1], nat)
         IN  IF r.rv = -1 THEN Failing(ps, specs)
             ELSE Going([ps EXCEPT !.state = 0], WithHead(specs, r.spec))
    ELSE Going([ps EXCEPT !.state = 5, !.addr = t], specs)

\* The body of the loop on the current token, argc already decremented.
parse_token(ps, specs, argv, g, nat) ==
    LET t == argv[ps.argv]
    IN  CASE ps.state = 0 ->
            LET r == proxyspec_set_proto(proxyspec_new(g), t)
                ps2 == [ps EXCEPT !.nnew = @ + 1]
            IN  IF r.rv = -1 THEN Failing(ps2, <<r.spec>> \o specs)
                ELSE Going([ps2 EXCEPT !.state = 1], <<r.spec>> \o specs)
          [] ps.state = 1 -> Going([ps EXCEPT !.state = 2, !.addr = t], specs)
          [] ps.state = 2 ->
            LET r == proxyspec_set_listen_addr(specs[1], ps.addr, t, nat)
            IN  IF r.rv = -1 THEN Failing(ps, specs)
                ELSE Going([ps EXCEPT !.state = 3, !.af = r.rv], WithHead(specs, r.spec))
          [] ps.state = 3 ->
            IF Contains(t, "up:") THEN parse_up([ps EXCEPT !.state = 4], specs, argv)
            ELSE parse_target([ps EXCEPT !.state = 4], specs, t, nat)
          [] ps.state = 4 -> parse_target(ps, specs, t, nat)
          [] ps.state = 5 ->
            LET r == proxyspec_set_target_addr(specs[1], ps.addr, t, ps.af)
            IN  IF r.rv = -1 THEN Failing(ps, specs)
                ELSE Going([ps EXCEPT !.state = 0], WithHead(specs, r.spec))
          [] OTHER ->
            LET r == proxyspec_set_sni_port(specs[1], t)
            IN  IF r.rv = -1 THEN Failing(ps, WithHead(specs, r.spec))
                ELSE Going([ps EXCEPT !.state = 0], WithHead(specs, r.spec))

\* The loop: while ((*argc)--) { ...; (*argv)++; }
RECURSIVE parse_loop(_, _, _, _, _)
parse_loop(ps, specs, argv, g, nat) ==
    IF ps.argc = 0 THEN Going(ps, specs)
    ELSE CHOOSE out \in
            {IF r.rv = -1 THEN r
             ELSE parse_loop([r.ps EXCEPT !.argv = @ + 1], r.specs, argv, g, nat) :
                r \in {parse_token([ps EXCEPT !.argc = @ - 1], specs, argv, g, nat)}} : TRUE

\* proxyspec_parse(): the listeners of the tokens argv before those of specs.
proxyspec_parse(specs, argv, g, nat, split) ==
    CHOOSE out \in
        {IF r.rv = -1 THEN r ELSE parse_end(r.ps, r.specs, split) :
            r \in {parse_loop(parse_new(Len(argv)), specs, argv, g, nat)}} : TRUE

\* load_proxyspec_line(): at most MAX_TOKENS tokens, then proxyspec_parse().
load_proxyspec_line(specs, value, g, nat, split) ==
    IF Len(value) > MAX_TOKENS THEN [rv |-> -1, specs |-> specs]
    ELSE LET r == proxyspec_parse(specs, value, g, nat, split)
         IN  [rv |-> r.rv, specs |-> r.specs]

(***************************************************************************)
(* A directive as text: a line of the configuration file, "NAME VALUE",    *)
(* and an option of the command line, "NAME=VALUE".                        *)
(***************************************************************************)
\* get_name_value(): the name ends at a blank or at sep; blanks and seps
\* before the value and behind it are dropped.  -1 without a name.
get_name_value(line, sep) ==
    LET Blank == {" ", "\t", "\r", "\n"}
        Stop(k) == k > Len(line) \/ CharAt(line, k) \in Blank \cup {sep}
        Trim(k) == k >= 1 /\ k <= Len(line) /\ CharAt(line, k) \in Blank \cup {sep}
    IN  CHOOSE out \in
            {IF n = 1 THEN [rv |-> -1, name |-> "", value |-> ""]
             ELSE IF n > Len(line) THEN [rv |-> 0, name |-> line, value |-> ""]
             ELSE CHOOSE o \in
                    {IF v > Len(line)
                     THEN [rv |-> 0, name |-> SubSeq(line, 1, n - 1), value |-> ""]
                     ELSE [rv |-> 0, name |-> SubSeq(line, 1, n - 1),
                           value |-> SubSeq(line, v,
                                CHOOSE e \in v..Len(line) :
                                    ~Trim(e) /\ \A j \in (e + 1)..Len(line) : Trim(j))] :
                        v \in {CHOOSE k \in (n + 1)..(Len(line) + 1) :
                                    ~Trim(k) /\ \A j \in (n + 1)..(k - 1) : Trim(j)}} : TRUE :
                n \in {CHOOSE k \in 1..(Len(line) + 1) :
                            Stop(k) /\ \A j \in 1..(k - 1) : ~Stop(j)}} : TRUE

\* The words of a value: strtok_r(value, " ", &last).
Words(value) == Strtok(value, {" "})

\* The line past its leading blanks and tabs.
SkipBlanks(line) ==
    SubSeq(line,
           CHOOSE k \in 1..(Len(line) + 1) :
                /\ k > Len(line) \/ CharAt(line, k) \notin {" ", "\t"}
                /\ \A j \in 1..(k - 1) : CharAt(line, j) \in {" ", "\t"},
           Len(line))

\* The loop of load_proxyspec_struct() over the lines left of the file: -1 at
\* the first line that fails and at the end of the file, 0 at the closing brace.
RECURSIVE struct_lines(_, _, _, _)
struct_lines(spec, lines, nat, addrs) ==
    IF lines = <<>> THEN [rv |-> -1, spec |-> spec, natengine |-> nat]
    ELSE CHOOSE out \in
            {IF r.rv = -1 THEN [rv |-> -1, spec |-> r.spec, natengine |-> r.natengine]
             ELSE IF r.rv = 2 THEN [rv |-> 0, spec |-> r.spec, natengine |-> r.natengine]
             ELSE struct_lines(r.spec, Tail(lines), r.natengine, r.addrs) :
                r \in {set_proxyspec_option(spec, Head(lines).name, Head(lines).value,
                                            nat, addrs)}} : TRUE

\* load_proxyspec_struct(): the new listener at the head of the list, the
\* default return address, the lines of the block, then set_divert().
load_proxyspec_struct(specs, lines, g, nat, split) ==
    CHOOSE out \in
        {[rv |-> r.rv, natengine |-> r.natengine,
          specs |-> <<IF r.rv = 0 THEN [set_divert(r.spec, split) EXCEPT !.done = TRUE]
                      ELSE r.spec>> \o specs] :
            r \in {struct_lines(proxyspec_set_return_addr(proxyspec_new(g), "127.0.0.1").spec,
                                lines, nat, spec_addrs_new)}} : TRUE

\* What a directive leaves: its return value, the global structure, the
\* default NAT engine, and whether the process has crashed.
Out(rv, gl, g, nat, specs) ==
    [rv |-> rv, global |-> gl, opts |-> g, natengine |-> nat, specs |-> specs,
     crash |-> FALSE]

\* set_global_option() with its ProxySpec branch, on st, the global structure
\* and the default NAT engine; f is the file the directive was read from:
\* NULL, or the lines of the file that are still to be read.
\* The outcomes it can have: load_proxyspec_struct() calls feof(f), which is
\* undefined for the NULL the command line passes; the process then crashes,
\* or goes on as at the end of a file.  atoi() is undefined for a number that
\* no int holds: it returns the low 32 bits of a long of 64 bits, or the
\* greatest or least long of 32 bits.
set_global_option_f(st, split, name, value, f) ==
    IF name = "ProxySpec" /\ value = <<"{">>
    THEN IF f.null
         THEN {[st EXCEPT !.crash = TRUE],
               CHOOSE out \in
                {Out(r.rv, st.global, st.opts, r.natengine, r.specs) :
                    r \in {load_proxyspec_struct(st.specs, <<>>, st.opts, st.natengine,
                                                 split)}} : TRUE}
         ELSE {Out(r.rv, st.global, st.opts, r.natengine, r.specs) :
                    r \in {load_proxyspec_struct(st.specs, f.lines, st.opts, st.natengine,
                                                 split)}}
    ELSE IF name = "ProxySpec" /\ value # <<>>
    THEN {Out(r.rv, st.global, st.opts, st.natengine, r.specs) :
            r \in {load_proxyspec_line(st.specs, value, st.opts, st.natengine, split)}}
    ELSE {Out(r.rv, r.global, r.opts, r.natengine, st.specs) :
            r \in {set_global_option(st.global, st.opts, name, v, st.natengine) :
                        v \in AtoiReadings(name, value)}}

\* The outcomes of a directive read as the text of a line with separator sep.
directive(st, split, text, sep, f) ==
    UNION {IF nv.rv = -1 THEN {[st EXCEPT !.rv = -1]}
           ELSE set_global_option_f(st, split, nv.name, Words(nv.value), f) :
                nv \in {get_name_value(SkipBlanks(text), sep)}}

\* opts_load_conffile() on one line, neither empty nor a comment, with the
\* lines that follow it in the file.
opts_load_conffile_line(st, split, line, rest) ==
    directive(st, split, line, " ", [null |-> FALSE, lines |-> rest])

\* global_set_option(): an option of the command line.
global_set_option(st, split, optarg) == directive(st, split, optarg, "=",
              [null |-> TRUE, lines |-> <<>>])

(***************************************************************************)
(* The filter unit tests: every filter_rule_set() / filter_macro_set()     *)
(* call of set_filter_rule_01..13 with the return value the test expects,  *)
(* "user_auth" where the test turns user authentication on; and, for the   *)
(* tests that print their rules, the precedence filter_rule_str() prints   *)
(* for each rule.                                                          *)
(***************************************************************************)
RefTests ==
    <<
    \* set_filter_rule_01 (line 652)
     <<[op |-> "rule", name |-> "Divert", toks |-> <<"*">>, rv |-> 0],
       [op |-> "rule", name |-> "Split", toks |-> <<"*">>, rv |-> 0],
       [op |-> "rule", name |-> "Pass", toks |-> <<"*">>, rv |-> 0],
       [op |-> "rule", name |-> "Block", toks |-> <<"*">>, rv |-> 0],
       [op |-> "rule", name |-> "Match", toks |-> <<"*">>, rv |-> 0],
       [op |-> "rule", name |-> "Divert", toks |-> <<"from", "*">>, rv |-> 0],
       [op |-> "rule", name |-> "Split", toks |-> <<"from", "*">>, rv |-> 0],
       [op |-> "rule", name |-> "Pass", toks |-> <<"from", "*">>, rv |-> 0],
       [op |-> "rule", name |-> "Block", toks |-> <<"from", "*">>, rv |-> 0],
       [op |-> "rule", name |-> "Match", toks |-> <<"from", "*">>, rv |-> 0],
       [op |-> "rule", name |-> "Divert", toks |-> <<"to", "*">>, rv |-> 0],
       [op |-> "rule", name |-> "Split", toks |-> <<"to", "*">>, rv |-> 0],
       [op |-> "rule", name |-> "Pass", toks |-> <<"to", "*">>, rv |-> 0],
       [op |-> "rule", name |-> "Block", toks |-> <<"to", "*">>, rv |-> 0],
       [op |-> "rule", name |-> "Match", toks |-> <<"to", "*">>, rv |-> 0],
       [op |-> "rule", name |-> "Divert", toks |-> <<"log", "*">>, rv |-> 0],
       [op |-> "rule", name |-> "Split", toks |-> <<"log", "*">>, rv |-> 0],
       [op |-> "rule", name |-> "Pass", toks |-> <<"log", "*">>, rv |-> 0],
       [op |-> "rule", name |-> "Block", toks |-> <<"log", "*">>, rv |-> 0],
       [op |-> "rule", name |-> "Match", toks |-> <<"log", "*">>, rv |-> 0]>>,
    \* set_filter_rule_02 (line 738)
     <<[op |-> "rule", name |-> "Divert", toks |-> <<"from", "ip", "*">>, rv |-> 0],
       [op |-> "rule", name |-> "Split", toks |-> <<"from", "ip", "*">>, rv |-> 0],
       [op |-> "rule", name |-> "Pass", toks |-> <<"from", "ip", "*">>, rv |-> 0],
       [op |-> "rule", name |-> "Block", toks |-> <<"from", "ip", "*">>, rv |-> 0],
       [op |-> "rule", name |-> "Match", toks |-> <<"from", "ip", "*">>, rv |-> 0],
       [op |-> "rule", name |-> "Divert", toks |-> <<"from", "ip", "192.168.0.1">>, rv |-> 0],
       [op |-> "rule", name |-> "Split", toks |-> <<"from", "ip", "192.168.0.1">>, rv |-> 0],
       [op |-> "rule", name |-> "Pass", toks |-> <<"from", "ip", "192.168.0.1">>, rv |-> 0],
       [op |-> "rule", name |-> "Block", toks |-> <<"from", "ip", "192.168.0.1">>, rv |-> 0],
       [op |-> "rule", name |-> "Match", toks |-> <<"from", "ip", "192.168.0.1">>, rv |-> 0],
       [op |-> "macro", name |-> "Define", toks |-> <<"$macro", "192.168.0.1", "192.168.0.2">>, rv |-> 0],
       [op |-> "rule", name |-> "Divert", toks |-> <<"from", "ip", "$macro">>, rv |-> 1],
       [op |-> "rule", name |-> "Split", toks |-> <<"from", "ip", "$macro">>, rv |-> 1],
       [op |-> "rule", name |-> "Pass", toks |-> <<"from", "ip", "$macro">>, rv |-> 1],
       [op |-> "rule", name |-> "Block", toks |-> <<"from", "ip", "$macro">>, rv |-> 1],
       [op |-> "rule", name |-> "Match", toks |-> <<"from", "ip", "$macro">>, rv |-> 1]>>,
    \* set_filter_rule_03 (line 817)
     <<[op |-> "macro", name |-> "Define", toks |-> <<"$macro", "root", "daemon">>, rv |-> 0],
       [op |-> "rule", name |-> "Divert", toks |-> <<"from", "user", "*">>, rv |-> -1],
       [op |-> "rule", name |-> "Split", toks |-> <<"from", "user", "*">>, rv |-> -1],
       [op |-> "rule", name |-> "Pass", toks |-> <<"from", "user", "*">>, rv |-> -1],
       [op |-> "rule", name |-> "Block", toks |-> <<"from", "user", "*">>, rv |-> -1],
       [op |-> "rule", name |-> "Match", toks |-> <<"from", "user", "*">>, rv |-> -1],
       [op |-> "rule", name |-> "Divert", toks |-> <<"from", "user", "*", "desc", "keyword">>, rv |-> -1],
       [op |-> "rule", name |-> "Split", toks |-> <<"from", "user", "*", "desc", "keyword">>, rv |-> -1],
       [op |-> "rule", name |-> "Pass", toks |-> <<"from", "user", "*", "desc", "keyword">>, rv |-> -1],
       [op |-> "rule", name |-> "Block", toks |-> <<"from", "user", "*", "desc", "keyword">>, rv |-> -1],
       [op |-> "rule", name |-> "Match", toks |-> <<"from", "user", "*", "desc", "keyword">>, rv |-> -1],
       [op |-> "rule", name |-> "Divert", toks |-> <<"from", "user", "$macro">>, rv |-> -1],
       [op |-> "rule", name |-> "Split", toks |-> <<"from", "user", "$macro">>, rv |-> -1],
       [op |-> "rule", name |-> "Pass", toks |-> <<"from", "user", "$macro">>, rv |-> -1],
       [op |-> "rule", name |-> "Block", toks |-> <<"from", "user", "$macro">>, rv |-> -1],
       [op |-> "rule", name |-> "Match", toks |-> <<"from", "user", "$macro">>, rv |-> -1],
       [op |-> "rule", name |-> "Divert", toks |-> <<"from", "user", "$macro", "desc", "keyword">>, rv |-> -1],
       [op |-> "rule", name |-> "Split", toks |-> <<"from", "user", "$macro", "desc", "keyword">>, rv |-> -1],
       [op |-> "rule", name |-> "Pass", toks |-> <<"from", "user", "$macro", "desc", "keyword">>, rv |-> -1],
       [op |-> "rule", name |-> "Block", toks |-> <<"from", "user", "$macro", "desc", "keyword">>, rv |-> -1],
       [op |-> "rule", name |-> "Match", toks |-> <<"from", "user", "$macro", "desc", "keyword">>, rv |-> -1],
       [op |-> "rule", name |-> "Divert", toks |-> <<"from", "user", "$macro", "desc", "$macro">>, rv |-> -1],
       [op |-> "rule", name |-> "Split", toks |-> <<"from", "user", "$macro", "desc", "$macro">>, rv |-> -1],
       [op |-> "rule", name |-> "Pass", toks |-> <<"from", "user", "$macro", "desc", "$macro">>, rv |-> -1],
       [op |-> "rule", name |-> "Block", toks |-> <<"from", "user", "$macro", "desc", "$macro">>, rv |-> -1],
       [op |-> "rule", name |-> "Match", toks |-> <<"from", "user", "$macro", "desc", "$macro">>, rv |-> -1],
       [op |-> "user_auth", name |-> "", toks |-> <<>>, rv |-> 0],
       [op |-> "rule", name |-> "Divert", toks |-> <<"from", "user", "*">>, rv |-> 0],
       [op |-> "rule", name |-> "Split", toks |-> <<"from", "user", "*">>, rv |-> 0],
       [op |-> "rule", name |-> "Pass", toks |-> <<"from", "user", "*">>, rv |-> 0],
       [op |-> "rule", name |-> "Block", toks |-> <<"from", "user", "*">>, rv |-> 0],
       [op |-> "rule", name |-> "Match", toks |-> <<"from", "user", "*">>, rv |-> 0],
       [op |-> "rule", name |-> "Divert", toks |-> <<"from", "user", "*", "desc", "keyword">>, rv |-> 0],
       [op |-> "rule", name |-> "Split", toks |-> <<"from", "user", "*", "desc", "keyword">>, rv |-> 0],
       [op |-> "rule", name |-> "Pass", toks |-> <<"from", "user", "*", "desc", "keyword">>, rv |-> 0],
       [op |-> "rule", name |-> "Block", toks |-> <<"from", "user", "*", "desc", "keyword">>, rv |-> 0],
       [op |-> "rule", name |-> "Match", toks |-> <<"from", "user", "*", "desc", "keyword">>, rv |-> 0],
       [op |-> "rule", name |-> "Divert", toks |-> <<"from", "user", "$macro">>, rv |-> 1],
       [op |-> "rule", name |-> "Split", toks |-> <<"from", "user", "$macro">>, rv |-> 1],
       [op |-> "rule", name |-> "Pass", toks |-> <<"from", "user", "$macro">>, rv |-> 1],
       [op |-> "rule", name |-> "Block", toks |-> <<"from", "user", "$macro">>, rv |-> 1],
       [op |-> "rule", name |-> "Match", toks |-> <<"from", "user", "$macro">>, rv |-> 1],
       [op |-> "rule", name |-> "Divert", toks |-> <<"from", "user", "$macro", "desc", "keyword">>, rv |-> 1],
       [op |-> "rule", name |-> "Split", toks |-> <<"from", "user", "$macro", "desc", "keyword">>, rv |-> 1],
       [op |-> "rule", name |-> "Pass", toks |-> <<"from", "user", "$macro", "desc", "keyword">>, rv |-> 1],
       [op |-> "rule", name |-> "Block", toks |-> <<"from", "user", "$macro", "desc", "keyword">>, rv |-> 1],
       [op |-> "rule", name |-> "Match", toks |-> <<"from", "user", "$macro", "desc", "keyword">>, rv |-> 1],
       [op |-> "rule", name |-> "Divert", toks |-> <<"from", "user", "$macro", "desc", "$macro">>, rv |-> 1],
       [op |-> "rule", name |-> "Split", toks |-> <<"from", "user", "$macro", "desc", "$macro">>, rv |-> 1],
       [op |-> "rule", name |-> "Pass", toks |-> <<"from", "user", "$macro", "desc", "$macro">>, rv |-> 1],
       [op |-> "rule", name |-> "Block", toks |-> <<"from", "user", "$macro", "desc", "$macro">>, rv |-> 1],
       [op |-> "rule", name |-> "Match", toks |-> <<"from", "user", "$macro", "desc", "$macro">>, rv |-> 1]>>,
    \* set_filter_rule_04 (line 1046)
     <<[op |-> "rule", name |-> "Divert", toks |-> <<"to", "ip", "*">>, rv |-> 0],
       [op |-> "rule", name |-> "Split", toks |-> <<"to", "ip", "*">>, rv |-> 0],
       [op |-> "rule", name |-> "Pass", toks |-> <<"to", "ip", "*">>, rv |-> 0],
       [op |-> "rule", name |-> "Block", toks |-> <<"to", "ip", "*">>, rv |-> 0],
       [op |-> "rule", name |-> "Match", toks |-> <<"to", "ip", "*">>, rv |-> 0],
       [op |-> "rule", name |-> "Divert", toks |-> <<"to", "ip", "*", "port", "*">>, rv |-> 0],
       [op |-> "rule", name |-> "Split", toks |-> <<"to", "ip", "*", "port", "*">>, rv |-> 0],
       [op |-> "rule", name |-> "Pass", toks |-> <<"to", "ip", "*", "port", "*">>, rv |-> 0],
       [op |-> "rule", name |-> "Block", toks |-> <<"to", "ip", "*", "port", "*">>, rv |-> 0],
       [op |-> "rule", name |-> "Match", toks |-> <<"to", "ip", "*", "port", "*">>, rv |-> 0],
       [op |-> "rule", name |-> "Divert", toks |-> <<"to", "ip", "192.168.0.1">>, rv |-> 0],
       [op |-> "rule", name |-> "Split", toks |-> <<"to", "ip", "192.168.0.1">>, rv |-> 0],
       [op |-> "rule", name |-> "Pass", toks |-> <<"to", "ip", "192.168.0.1">>, rv |-> 0],
       [op |-> "rule", name |-> "Block", toks |-> <<"to", "ip", "192.168.0.1">>, rv |-> 0],
       [op |-> "rule", name |-> "Match", toks |-> <<"to", "ip", "192.168.0.1">>, rv |-> 0],
       [op |-> "rule", name |-> "Divert", toks |-> <<"to", "ip", "192.168.0.1", "port", "*">>, rv |-> 0],
       [op |-> "rule", name |-> "Split", toks |-> <<"to", "ip", "192.168.0.1", "port", "*">>, rv |-> 0],
       [op |-> "rule", name |-> "Pass", toks |-> <<"to", "ip", "192.168.0.1", "port", "*">>, rv |-> 0],
       [op |-> "rule", name |-> "Block", toks |-> <<"to", "ip", "192.168.0.1", "port", "*">>, rv |-> 0],
       [op |-> "rule", name |-> "Match", toks |-> <<"to", "ip", "192.168.0.1", "port", "*">>, rv |-> 0],
       [op |-> "rule", name |-> "Divert", toks |-> <<"to", "ip", "*", "port", "443">>, rv |-> 0],
       [op |-> "rule", name |-> "Split", toks |-> <<"to", "ip", "*", "port", "443">>, rv |-> 0],
       [op |-> "rule", name |-> "Pass", toks |-> <<"to", "ip", "*", "port", "443">>, rv |-> 0],
       [op |-> "rule", name |-> "Block", toks |-> <<"to", "ip", "*", "port", "443">>, rv |-> 0],
       [op |-> "rule", name |-> "Match", toks |-> <<"to", "ip", "*", "port", "443">>, rv |-> 0],
       [op |-> "rule", name |-> "Divert", toks |-> <<"to", "ip", "192.168.0.1", "port", "443">>, rv |-> 0],
       [op |-> "rule", name |-> "Split", toks |-> <<"to", "ip", "192.168.0.1", "port", "443">>, rv |-> 0],
       [op |-> "rule", name |-> "Pass", toks |-> <<"to", "ip", "192.168.0.1", "port", "443">>, rv |-> 0],
       [op |-> "rule", name |-> "Block", toks |-> <<"to", "ip", "192.168.0.1", "port", "443">>, rv |-> 0],
       [op |-> "rule", name |-> "Match", toks |-> <<"to", "ip", "192.168.0.1", "port", "443">>, rv |-> 0],
       [op |-> "macro", name |-> "Define", toks |-> <<"$macro1", "192.168.0.1", "192.168.0.2">>, rv |-> 0],
       [op |-> "macro", name |-> "Define", toks |-> <<"$macro2", "443", "444">>, rv |-> 0],
       [op |-> "rule", name |-> "Divert", toks |-> <<"to", "ip", "$macro1", "port", "$macro2">>, rv |-> 1],
       [op |-> "rule", name |-> "Split", toks |-> <<"to", "ip", "$macro1", "port", "$macro2">>, rv |-> 1],
       [op |-> "rule", name |-> "Pass", toks |-> <<"to", "ip", "$macro1", "port", "$macro2">>, rv |-> 1],
       [op |-> "rule", name |-> "Block", toks |-> <<"to", "ip", "$macro1", "port", "$macro2">>, rv |-> 1],
       [op |-> "rule", name |-> "Match", toks |-> <<"to", "ip", "$macro1", "port", "$macro2">>, rv |-> 1]>>,
    \* set_filter_rule_05 (line 1213)
     <<[op |-> "macro", name |-> "Define", toks |-> <<"$macro", "example.com", "example*">>, rv |-> 0],
       [op |-> "rule", name |-> "Divert", toks |-> <<"to", "sni", "*">>, rv |-> 0],
       [op |-> "rule", name |-> "Split", toks |-> <<"to", "sni", "*">>, rv |-> 0],
       [op |-> "rule", name |-> "Pass", toks |-> <<"to", "sni", "*">>, rv |-> 0],
       [op |-> "rule", name |-> "Block", toks |-> <<"to", "sni", "*">>, rv |-> 0],
       [op |-> "rule", name |-> "Match", toks |-> <<"to", "sni", "*">>, rv |-> 0],
       [op |-> "rule", name |-> "Divert", toks |-> <<"to", "sni", "example.com">>, rv |-> 0],
       [op |-> "rule", name |-> "Split", toks |-> <<"to", "sni", "example.com">>, rv |-> 0],
       [op |-> "rule", name |-> "Pass", toks |-> <<"to", "sni", "example.com">>, rv |-> 0],
       [op |-> "rule", name |-> "Block", toks |-> <<"to", "sni", "example.com">>, rv |-> 0],
       [op |-> "rule", name |-> "Match", toks |-> <<"to", "sni", "example.com">>, rv |-> 0],
       [op |-> "rule", name |-> "Divert", toks |-> <<"to", "sni", "$macro">>, rv |-> 1],
       [op |-> "rule", name |-> "Split", toks |-> <<"to", "sni", "$macro">>, rv |-> 1],
       [op |-> "rule", name |-> "Pass", toks |-> <<"to", "sni", "$macro">>, rv |-> 1],
       [op |-> "rule", name |-> "Block", toks |-> <<"to", "sni", "$macro">>, rv |-> 1],
       [op |-> "rule", name |-> "Match", toks |-> <<"to", "sni", "$macro">>, rv |-> 1],
       [op |-> "rule", name |-> "Divert", toks |-> <<"to", "cn", "*">>, rv |-> 0],
       [op |-> "rule", name |-> "Split", toks |-> <<"to", "cn", "*">>, rv |-> 0],
       [op |-> "rule", name |-> "Pass", toks |-> <<"to", "cn", "*">>, rv |-> 0],
       [op |-> "rule", name |-> "Block", toks |-> <<"to", "cn", "*">>, rv |-> 0],
       [op |-> "rule", name |-> "Match", toks |-> <<"to", "cn", "*">>, rv |-> 0],
       [op |-> "rule", name |-> "Divert", toks |-> <<"to", "cn", "example.com">>, rv |-> 0],
       [op |-> "rule", name |-> "Split", toks |-> <<"to", "cn", "example.com">>, rv |-> 0],
       [op |-> "rule", name |-> "Pass", toks |-> <<"to", "cn", "example.com">>, rv |-> 0],
       [op |-> "rule", name |-> "Block", toks |-> <<"to", "cn", "example.com">>, rv |-> 0],
       [op |-> "rule", name |-> "Match", toks |-> <<"to", "cn", "example.com">>, rv |-> 0],
       [op |-> "rule", name |-> "Divert", toks |-> <<"to", "cn", "$macro">>, rv |-> 1],
       [op |-> "rule", name |-> "Split", toks |-> <<"to", "cn", "$macro">>, rv |-> 1],
       [op |-> "rule", name |-> "Pass", toks |-> <<"to", "cn", "$macro">>, rv |-> 1],
       [op |-> "rule", name |-> "Block", toks |-> <<"to", "cn", "$macro">>, rv |-> 1],
       [op |-> "rule", name |-> "Match", toks |-> <<"to", "cn", "$macro">>, rv |-> 1],
       [op |-> "rule", name |-> "Divert", toks |-> <<"to", "host", "*">>, rv |-> 0],
       [op |-> "rule", name |-> "Split", toks |-> <<"to", "host", "*">>, rv |-> 0],
       [op |-> "rule", name |-> "Pass", toks |-> <<"to", "host", "*">>, rv |-> 0],
       [op |-> "rule", name |-> "Block", toks |-> <<"to", "host", "*">>, rv |-> 0],
       [op |-> "rule", name |-> "Match", toks |-> <<"to", "host", "*">>, rv |-> 0],
       [op |-> "rule", name |-> "Divert", toks |-> <<"to", "host", "example.com">>, rv |-> 0],
       [op |-> "rule", name |-> "Split", toks |-> <<"to", "host", "example.com">>, rv |-> 0],
       [op |-> "rule", name |-> "Pass", toks |-> <<"to", "host", "example.com">>, rv |-> 0],
       [op |-> "rule", name |-> "Block", toks |-> <<"to", "host", "example.com">>, rv |-> 0],
       [op |-> "rule", name |-> "Match", toks |-> <<"to", "host", "example.com">>, rv |-> 0],
       [op |-> "rule", name |-> "Divert", toks |-> <<"to", "host", "$macro">>, rv |-> 1],
       [op |-> "rule", name |-> "Split", toks |-> <<"to", "host", "$macro">>, rv |-> 1],
       [op |-> "rule", name |-> "Pass", toks |-> <<"to", "host", "$macro">>, rv |-> 1],
       [op |-> "rule", name |-> "Block", toks |-> <<"to", "host", "$macro">>, rv |-> 1],
       [op |-> "rule", name |-> "Match", toks |-> <<"to", "host", "$macro">>, rv |-> 1],
       [op |-> "rule", name |-> "Divert", toks |-> <<"to", "uri", "*">>, rv |-> 0],
       [op |-> "rule", name |-> "Split", toks |-> <<"to", "uri", "*">>, rv |-> 0],
       [op |-> "rule", name |-> "Pass", toks |-> <<"to", "uri", "*">>, rv |-> 0],
       [op |-> "rule", name |-> "Block", toks |-> <<"to", "uri", "*">>, rv |-> 0],
       [op |-> "rule", name |-> "Match", toks |-> <<"to", "uri", "*">>, rv |-> 0],
       [op |-> "rule", name |-> "Divert", toks |-> <<"to", "uri", "example.com">>, rv |-> 0],
       [op |-> "rule", name |-> "Split", toks |-> <<"to", "uri", "example.com">>, rv |-> 0],
       [op |-> "rule", name |-> "Pass", toks |-> <<"to", "uri", "example.com">>, rv |-> 0],
       [op |-> "rule", name |-> "Block", toks |-> <<"to", "uri", "example.com">>, rv |-> 0],
       [op |-> "rule", name |-> "Match", toks |-> <<"to", "uri", "example.com">>, rv |-> 0],
       [op |-> "rule", name |-> "Divert", toks |-> <<"to", "uri", "$macro">>, rv |-> 1],
       [op |-> "rule", name |-> "Split", toks |-> <<"to", "uri", "$macro">>, rv |-> 1],
       [op |-> "rule", name |-> "Pass", toks |-> <<"to", "uri", "$macro">>, rv |-> 1],
       [op |-> "rule", name |-> "Block", toks |-> <<"to", "uri", "$macro">>, rv |-> 1],
       [op |-> "rule", name |-> "Match", toks |-> <<"to", "uri", "$macro">>, rv |-> 1]>>,
    \* set_filter_rule_06 (line 1480)
     <<[op |-> "rule", name |-> "Divert", toks |-> <<"log", "*">>, rv |-> 0],
       [op |-> "rule", name |-> "Split", toks |-> <<"log", "*">>, rv |-> 0],
       [op |-> "rule", name |-> "Pass", toks |-> <<"log", "*">>, rv |-> 0],
       [op |-> "rule", name |-> "Block", toks |-> <<"log", "*">>, rv |-> 0],
       [op |-> "rule", name |-> "Match", toks |-> <<"log", "*">>, rv |-> 0],
       [op |-> "rule", name |-> "Divert", toks |-> <<"log", "connect">>, rv |-> 0],
       [op |-> "rule", name |-> "Split", toks |-> <<"log", "connect">>, rv |-> 0],
       [op |-> "rule", name |-> "Pass", toks |-> <<"log", "connect">>, rv |-> 0],
       [op |-> "rule", name |-> "Block", toks |-> <<"log", "connect">>, rv |-> 0],
       [op |-> "rule", name |-> "Match", toks |-> <<"log", "connect">>, rv |-> 0],
       [op |-> "rule", name |-> "Divert", toks |-> <<"log", "master">>, rv |-> 0],
       [op |-> "rule", name |-> "Split", toks |-> <<"log", "master">>, rv |-> 0],
       [op |-> "rule", name |-> "Pass", toks |-> <<"log", "master">>, rv |-> 0],
       [op |-> "rule", name |-> "Block", toks |-> <<"log", "master">>, rv |-> 0],
       [op |-> "rule", name |-> "Match", toks |-> <<"log", "master">>, rv |-> 0],
       [op |-> "rule", name |-> "Divert", toks |-> <<"log", "cert">>, rv |-> 0],
       [op |-> "rule", name |-> "Split", toks |-> <<"log", "cert">>, rv |-> 0],
       [op |-> "rule", name |-> "Pass", toks |-> <<"log", "cert">>, rv |-> 0],
       [op |-> "rule", name |-> "Block", toks |-> <<"log", "cert">>, rv |-> 0],
       [op |-> "rule", name |-> "Match", toks |-> <<"log", "cert">>, rv |-> 0],
       [op |-> "rule", name |-> "Divert", toks |-> <<"log", "content">>, rv |-> 0],
       [op |-> "rule", name |-> "Split", toks |-> <<"log", "content">>, rv |-> 0],
       [op |-> "rule", name |-> "Pass", toks |-> <<"log", "content">>, rv |-> 0],
       [op |-> "rule", name |-> "Block", toks |-> <<"log", "content">>, rv |-> 0],
       [op |-> "rule", name |-> "Match", toks |-> <<"log", "content">>, rv |-> 0],
       [op |-> "rule", name |-> "Divert", toks |-> <<"log", "pcap">>, rv |-> 0],
       [op |-> "rule", name |-> "Split", toks |-> <<"log", "pcap">>, rv |-> 0],
       [op |-> "rule", name |-> "Pass", toks |-> <<"log", "pcap">>, rv |-> 0],
       [op |-> "rule", name |-> "Block", toks |-> <<"log", "pcap">>, rv |-> 0],
       [op |-> "rule", name |-> "Match", toks |-> <<"log", "pcap">>, rv |-> 0],
       [op |-> "rule", name |-> "Divert", toks |-> <<"log", "mirror">>, rv |-> 0],
       [op |-> "rule", name |-> "Split", toks |-> <<"log", "mirror">>, rv |-> 0],
       [op |-> "rule", name |-> "Pass", toks |-> <<"log", "mirror">>, rv |-> 0],
       [op |-> "rule", name |-> "Block", toks |-> <<"log", "mirror">>, rv |-> 0],
       [op |-> "rule", name |-> "Match", toks |-> <<"log", "mirror">>, rv |-> 0],
       [op |-> "rule", name |-> "Divert", toks |-> <<"log", "!*">>, rv |-> 0],
       [op |-> "rule", name |-> "Split", toks |-> <<"log", "!*">>, rv |-> 0],
       [op |-> "rule", name |-> "Pass", toks |-> <<"log", "!*">>, rv |-> 0],
       [op |-> "rule", name |-> "Block", toks |-> <<"log", "!*">>, rv |-> 0],
       [op |-> "rule", name |-> "Match", toks |-> <<"log", "!*">>, rv |-> 0],
       [op |-> "rule", name |-> "Divert", toks |-> <<"log", "!connect">>, rv |-> 0],
       [op |-> "rule", name |-> "Split", toks |-> <<"log", "!connect">>, rv |-> 0],
       [op |-> "rule", name |-> "Pass", toks |-> <<"log", "!connect">>, rv |-> 0],
       [op |-> "rule", name |-> "Block", toks |-> <<"log", "!connect">>, rv |-> 0],
       [op |-> "rule", name |-> "Match", toks |-> <<"log", "!connect">>, rv |-> 0],
       [op |-> "rule", name |-> "Divert", toks |-> <<"log", "!master">>, rv |-> 0],
       [op |-> "rule", name |-> "Split", toks |-> <<"log", "!master">>, rv |-> 0],
       [op |-> "rule", name |-> "Pass", toks |-> <<"log", "!master">>, rv |-> 0],
       [op |-> "rule", name |-> "Block", toks |-> <<"log", "!master">>, rv |-> 0],
       [op |-> "rule", name |-> "Match", toks |-> <<"log", "!master">>, rv |-> 0],
       [op |-> "rule", name |-> "Divert", toks |-> <<"log", "!cert">>, rv |-> 0],
       [op |-> "rule", name |-> "Split", toks |-> <<"log", "!cert">>, rv |-> 0],
       [op |-> "rule", name |-> "Pass", toks |-> <<"log", "!cert">>, rv |-> 0],
       [op |-> "rule", name |-> "Block", toks |-> <<"log", "!cert">>, rv |-> 0],
       [op |-> "rule", name |-> "Match", toks |-> <<"log", "!cert">>, rv |-> 0],
       [op |-> "rule", name |-> "Divert", toks |-> <<"log", "!content">>, rv |-> 0],
       [op |-> "rule", name |-> "Split", toks |-> <<"log", "!content">>, rv |-> 0],
       [op |-> "rule", name |-> "Pass", toks |-> <<"log", "!content">>, rv |-> 0],
       [op |-> "rule", name |-> "Block", toks |-> <<"log", "!content">>, rv |-> 0],
       [op |-> "rule", name |-> "Match", toks |-> <<"log", "!content">>, rv |-> 0],
       [op |-> "rule", name |-> "Divert", toks |-> <<"log", "!pcap">>, rv |-> 0],
       [op |-> "rule", name |-> "Split", toks |-> <<"log", "!pcap">>, rv |-> 0],
       [op |-> "rule", name |-> "Pass", toks |-> <<"log", "!pcap">>, rv |-> 0],
       [op |-> "rule", name |-> "Block", toks |-> <<"log", "!pcap">>, rv |-> 0],
       [op |-> "rule", name |-> "Match", toks |-> <<"log", "!pcap">>, rv |-> 0],
       [op |-> "rule", name |-> "Divert", toks |-> <<"log", "!mirror">>, rv |-> 0],
       [op |-> "rule", name |-> "Split", toks |-> <<"log", "!mirror">>, rv |-> 0],
       [op |-> "rule", name |-> "Pass", toks |-> <<"log", "!mirror">>, rv |-> 0],
       [op |-> "rule", name |-> "Block", toks |-> <<"log", "!mirror">>, rv |-> 0],
       [op |-> "rule", name |-> "Match", toks |-> <<"log", "!mirror">>, rv |-> 0],
       [op |-> "macro", name |-> "Define", toks |-> <<"$macro", "connect", "master", "cert", "content", "pcap", "mirror">>, rv |-> 0],
       [op |-> "rule", name |-> "Divert", toks |-> <<"log", "$macro">>, rv |-> 1],
       [op |-> "rule", name |-> "Split", toks |-> <<"log", "$macro">>, rv |-> 1],
       [op |-> "rule", name |-> "Pass", toks |-> <<"log", "$macro">>, rv |-> 1],
       [op |-> "rule", name |-> "Block", toks |-> <<"log", "$macro">>, rv |-> 1],
       [op |-> "rule", name |-> "Match", toks |-> <<"log", "$macro">>, rv |-> 1],
       [op |-> "macro", name |-> "Define", toks |-> <<"$macro2", "!connect", "!master", "!cert", "!content", "!pcap", "!mirror">>, rv |-> 0],
       [op |-> "rule", name |-> "Divert", toks |-> <<"log", "$macro2">>, rv |-> 1],
       [op |-> "rule", name |-> "Split", toks |-> <<"log", "$macro2">>, rv |-> 1],
       [op |-> "rule", name |-> "Pass", toks |-> <<"log", "$macro2">>, rv |-> 1],
       [op |-> "rule", name |-> "Block", toks |-> <<"log", "$macro2">>, rv |-> 1],
       [op |-> "rule", name |-> "Match", toks |-> <<"log", "$macro2">>, rv |-> 1],
       [op |-> "macro", name |-> "Define", toks |-> <<"$macro3", "connect", "!master", "cert", "!content", "pcap", "!mirror">>, rv |-> 0],
       [op |-> "rule", name |-> "Divert", toks |-> <<"log", "$macro3">>, rv |-> 1],
       [op |-> "rule", name |-> "Split", toks |-> <<"log", "$macro3">>, rv |-> 1],
       [op |-> "rule", name |-> "Pass", toks |-> <<"log", "$macro3">>, rv |-> 1],
       [op |-> "rule", name |-> "Block", toks |-> <<"log", "$macro3">>, rv |-> 1],
       [op |-> "rule", name |-> "Match", toks |-> <<"log", "$macro3">>, rv |-> 1],
       [op |-> "macro", name |-> "Define", toks |-> <<"$macro4", "!connect", "master", "!cert", "content", "!pcap", "mirror">>, rv |-> 0],
       [op |-> "rule", name |-> "Divert", toks |-> <<"log", "$macro4">>, rv |-> 1],
       [op |-> "rule", name |-> "Split", toks |-> <<"log", "$macro4">>, rv |-> 1],
       [op |-> "rule", name |-> "Pass", toks |-> <<"log", "$macro4">>, rv |-> 1],
       [op |-> "rule", name |-> "Block", toks |-> <<"log", "$macro4">>, rv |-> 1],
       [op |-> "rule", name |-> "Match", toks |-> <<"log", "$macro4">>, rv |-> 1],
       [op |-> "macro", name |-> "Define", toks |-> <<"$macro5", "connect", "master", "cert", "!content", "!pcap", "!mirror">>, rv |-> 0],
       [op |-> "rule", name |-> "Divert", toks |-> <<"log", "$macro5">>, rv |-> 1],
       [op |-> "rule", name |-> "Split", toks |-> <<"log", "$macro5">>, rv |-> 1],
       [op |-> "rule", name |-> "Pass", toks |-> <<"log", "$macro5">>, rv |-> 1],
       [op |-> "rule", name |-> "Block", toks |-> <<"log", "$macro5">>, rv |-> 1],
       [op |-> "rule", name |-> "Match", toks |-> <<"log", "$macro5">>, rv |-> 1],
       [op |-> "macro", name |-> "Define", toks |-> <<"$macro6", "!connect", "!master", "!cert", "content", "pcap", "mirror">>, rv |-> 0],
       [op |-> "rule", name |-> "Divert", toks |-> <<"log", "$macro6">>, rv |-> 1],
       [op |-> "rule", name |-> "Split", toks |-> <<"log", "$macro6">>, rv |-> 1],
       [op |-> "rule", name |-> "Pass", toks |-> <<"log", "$macro6">>, rv |-> 1],
       [op |-> "rule", name |-> "Block", toks |-> <<"log", "$macro6">>, rv |-> 1],
       [op |-> "rule", name |-> "Match", toks |-> <<"log", "$macro6">>, rv |-> 1]>>,
    \* set_filter_rule_07 (line 1940)
     <<[op |-> "rule", name |-> "Divert", toks |-> <<"*">>, rv |-> 0],
       [op |-> "rule", name |-> "Split", toks |-> <<"from", "*">>, rv |-> 0],
       [op |-> "rule", name |-> "Pass", toks |-> <<"from", "ip", "*">>, rv |-> 0],
       [op |-> "user_auth", name |-> "", toks |-> <<>>, rv |-> 0],
       [op |-> "rule", name |-> "Block", toks |-> <<"from", "user", "*">>, rv |-> 0],
       [op |-> "rule", name |-> "Match", toks |-> <<"from", "user", "*", "desc", "desc">>, rv |-> 0],
       [op |-> "rule", name |-> "Match", toks |-> <<"from", "*", "to", "*", "log", "*">>, rv |-> 0]>>,
    \* set_filter_rule_08 (line 2041)
     <<[op |-> "rule", name |-> "Divert", toks |-> <<"from", "ip", "192.168.0.1", "to", "ip", "192.168.0.2">>, rv |-> 0],
       [op |-> "rule", name |-> "Split", toks |-> <<"from", "ip", "192.168.0.1", "to", "ip", "192.168.0.2", "log", "connect", "master", "cert", "content", "pcap", "mirror">>, rv |-> 0],
       [op |-> "rule", name |-> "Pass", toks |-> <<"from", "ip", "192.168.0.1", "to", "ip", "192.168.0.2", "log", "!connect", "!cert", "!pcap">>, rv |-> 0],
       [op |-> "rule", name |-> "Block", toks |-> <<"from", "ip", "192.168.0.1", "to", "ip", "192.168.0.2">>, rv |-> 0],
       [op |-> "rule", name |-> "Match", toks |-> <<"from", "ip", "192.168.0.1", "to", "ip", "192.168.0.3">>, rv |-> 0],
       [op |-> "rule", name |-> "Match", toks |-> <<"from", "ip", "192.168.0.2", "to", "ip", "192.168.0.1">>, rv |-> 0],
       [op |-> "rule", name |-> "Match", toks |-> <<"from", "ip", "192.168.0.2", "to", "ip", "*">>, rv |-> 0],
       [op |-> "rule", name |-> "Match", toks |-> <<"from", "ip", "192.168.0.2", "to", "ip", "192.168.0.*">>, rv |-> 0],
       [op |-> "rule", name |-> "Match", toks |-> <<"from", "ip", "192.168.0.2", "to", "ip", "192.168.0.3">>, rv |-> 0]>>,
    \* set_filter_rule_09 (line 2144)
     <<[op |-> "rule", name |-> "Divert", toks |-> <<"from", "ip", "192.168.0.1", "to", "ip", "192.168.0.2", "port", "443">>, rv |-> 0],
       [op |-> "rule", name |-> "Split", toks |-> <<"from", "ip", "192.168.0.1", "to", "ip", "192.168.0.2", "port", "443", "log", "connect", "master", "cert", "content", "pcap", "mirror">>, rv |-> 0],
       [op |-> "rule", name |-> "Pass", toks |-> <<"from", "ip", "192.168.0.1", "to", "ip", "192.168.0.2", "port", "443", "log", "!connect", "!cert", "!pcap">>, rv |-> 0],
       [op |-> "rule", name |-> "Block", toks |-> <<"from", "ip", "192.168.0.1", "to", "ip", "192.168.0.2", "port", "443">>, rv |-> 0],
       [op |-> "rule", name |-> "Match", toks |-> <<"from", "ip", "192.168.0.1", "to", "ip", "192.168.0.3", "log", "!mirror">>, rv |-> 0],
       [op |-> "rule", name |-> "Match", toks |-> <<"from", "ip", "192.168.0.1", "to", "ip", "192.168.0.3", "port", "443">>, rv |-> 0],
       [op |-> "rule", name |-> "Match", toks |-> <<"from", "ip", "192.168.0.1", "to", "ip", "192.168.0.3", "port", "80">>, rv |-> 0],
       [op |-> "rule", name |-> "Match", toks |-> <<"from", "ip", "192.168.0.2", "to", "ip", "192.168.0.1", "port", "443">>, rv |-> 0],
       [op |-> "rule", name |-> "Match", toks |-> <<"from", "ip", "192.168.0.2", "to", "ip", "192.168.0.1", "port", "*">>, rv |-> 0],
       [op |-> "rule", name |-> "Match", toks |-> <<"from", "ip", "192.168.0.2", "to", "ip", "192.168.0.1", "port", "80*">>, rv |-> 0]>>,
    \* set_filter_rule_10 (line 2260)
     <<[op |-> "user_auth", name |-> "", toks |-> <<>>, rv |-> 0],
       [op |-> "rule", name |-> "Divert", toks |-> <<"from", "user", "root", "to", "sni", "example.com">>, rv |-> 0],
       [op |-> "rule", name |-> "Split", toks |-> <<"from", "user", "root", "to", "sni", "example.com", "log", "connect", "master", "cert", "content", "pcap", "mirror">>, rv |-> 0],
       [op |-> "rule", name |-> "Pass", toks |-> <<"from", "user", "root", "to", "sni", "example.com", "log", "!connect", "!cert", "!pcap">>, rv |-> 0],
       [op |-> "rule", name |-> "Block", toks |-> <<"from", "user", "root", "to", "sni", "example.com">>, rv |-> 0],
       [op |-> "rule", name |-> "Match", toks |-> <<"from", "user", "root", "to", "sni", "example2.com">>, rv |-> 0],
       [op |-> "rule", name |-> "Match", toks |-> <<"from", "user", "daemon", "to", "sni", "example.com">>, rv |-> 0],
       [op |-> "rule", name |-> "Match", toks |-> <<"from", "user", "daemon", "to", "sni", "*">>, rv |-> 0],
       [op |-> "rule", name |-> "Match", toks |-> <<"from", "user", "daemon", "to", "sni", ".example.com*">>, rv |-> 0],
       [op |-> "rule", name |-> "Match", toks |-> <<"from", "user", "daemon", "to", "sni", "example3.com">>, rv |-> 0]>>,
    \* set_filter_rule_11 (line 2365)
     <<[op |-> "user_auth", name |-> "", toks |-> <<>>, rv |-> 0],
       [op |-> "rule", name |-> "Divert", toks |-> <<"from", "user", "root", "desc", "desc", "to", "cn", "example.com">>, rv |-> 0],
       [op |-> "rule", name |-> "Split", toks |-> <<"from", "user", "root", "desc", "desc", "to", "cn", "example.com", "log", "connect", "master", "cert", "content", "pcap", "mirror">>, rv |-> 0],
       [op |-> "rule", name |-> "Pass", toks |-> <<"from", "user", "root", "desc", "desc", "to", "cn", "example.com", "log", "!connect", "!cert", "!pcap">>, rv |-> 0],
       [op |-> "rule", name |-> "Block", toks |-> <<"from", "user", "root", "desc", "desc", "to", "cn", "example.com">>, rv |-> 0],
       [op |-> "rule", name |-> "Match", toks |-> <<"from", "user", "root", "desc", "desc", "to", "cn", "example2.com">>, rv |-> 0],
       [op |-> "rule", name |-> "Match", toks |-> <<"from", "user", "daemon", "desc", "desc", "to", "cn", "example.com">>, rv |-> 0],
       [op |-> "rule", name |-> "Match", toks |-> <<"from", "user", "daemon", "desc", "desc", "to", "cn", "*">>, rv |-> 0],
       [op |-> "rule", name |-> "Match", toks |-> <<"from", "user", "daemon", "desc", "desc", "to", "cn", ".example.com*">>, rv |-> 0],
       [op |-> "rule", name |-> "Match", toks |-> <<"from", "user", "daemon", "desc", "desc", "to", "cn", "example3.com">>, rv |-> 0],
       [op |-> "rule", name |-> "Match", toks |-> <<"from", "user", "daemon", "desc", "desc2", "to", "cn", "example4.com">>, rv |-> 0],
       [op |-> "rule", name |-> "Match", toks |-> <<"from", "user", "*", "desc", "desc", "to", "cn", "example5.com">>, rv |-> 0],
       [op |-> "rule", name |-> "Match", toks |-> <<"from", "user", "*", "desc", "desc", "to", "host", "*">>, rv |-> 0],
       [op |-> "rule", name |-> "Match", toks |-> <<"from", "user", "*", "desc", "desc3", "to", "uri", "example6.com">>, rv |-> 0]>>,
    \* set_filter_rule_12 (line 2513)
     <<[op |-> "macro", name |-> "Define", toks |-> <<"$ips", "192.168.0.1", "192.168.0.2">>, rv |-> 0],
       [op |-> "macro", name |-> "Define", toks |-> <<"$dstips", "192.168.0.3", "192.168.0.4">>, rv |-> 0],
       [op |-> "macro", name |-> "Define", toks |-> <<"$ports", "80", "443">>, rv |-> 0],
       [op |-> "macro", name |-> "Define", toks |-> <<"$logs", "!master", "!pcap">>, rv |-> 0],
       [op |-> "rule", name |-> "Match", toks |-> <<"from", "ip", "$ips", "to", "ip", "$dstips", "port", "$ports", "log", "$logs">>, rv |-> 1]>>,
    \* set_filter_rule_13 (line 2606)
     <<[op |-> "macro", name |-> "Define", toks |-> <<"$users", "root", "daemon">>, rv |-> 0],
       [op |-> "macro", name |-> "Define", toks |-> <<"$descs", "desc1", "desc2">>, rv |-> 0],
       [op |-> "macro", name |-> "Define", toks |-> <<"$sites", "site1", "site2">>, rv |-> 0],
       [op |-> "macro", name |-> "Define", toks |-> <<"$logs", "connect", "content">>, rv |-> 0],
       [op |-> "user_auth", name |-> "", toks |-> <<>>, rv |-> 0],
       [op |-> "rule", name |-> "Match", toks |-> <<"from", "user", "$users", "desc", "$descs", "to", "sni", "$sites", "log", "$logs">>, rv |-> 1]>>
    >>

RefPrecedence ==
    <<<<>>,
      <<>>,
      <<>>,
      <<>>,
      <<>>,
      <<>>,
      <<0, 0, 0, 1, 2, 1>>,
      <<1, 2, 2, 1, 1, 1, 1, 1, 1>>,
      <<2, 3, 3, 2, 2, 2, 2, 2, 2, 2>>,
      <<3, 4, 4, 3, 3, 3, 3, 3, 3>>,
      <<4, 5, 5, 4, 4, 4, 4, 4, 4, 4, 3, 3, 3>>,
      <<3, 3, 3, 3, 3, 3, 3, 3, 3, 3, 3, 3, 3, 3, 3, 3>>,
      <<5, 5, 5, 5, 5, 5, 5, 5, 5, 5, 5, 5, 5, 5, 5, 5>>>>

\* The tests that compile their rules with filter_set().
RefCompiled == {t \in 1..Len(RefTests) : RefPrecedence[t] # <<>>}

(***************************************************************************)
(* Rule texts for the exploration of the compiler, in families: rules of   *)
(* several precedences on one leaf; sites and ports with the all-sentinel  *)
(* declared before, between and after substrings; the sources with a user  *)
(* or a description; the other sources; macros of two and three values.    *)
(***************************************************************************)
T(name, toks) == [name |-> name, toks |-> toks]

Families ==
    [leaf |->
        <<T("Divert", <<"from", "ip", "192.168.0.1", "to", "ip", "192.168.0.2", "port", "443">>),
          T("Split", <<"from", "ip", "192.168.0.1", "to", "ip", "192.168.0.2", "port", "443",
                       "log", "connect", "master">>),
          T("Pass", <<"from", "ip", "192.168.0.1", "to", "ip", "192.168.0.2", "port", "443",
                      "log", "!connect">>),
          T("Block", <<"from", "ip", "192.168.0.1", "to", "ip", "192.168.0.2", "port", "443">>),
          T("Match", <<"from", "ip", "192.168.0.1", "to", "ip", "192.168.0.2", "log", "!master">>),
          T("Block", <<"from", "ip", "192.168.0.1", "to", "ip", "192.168.0.2">>)>>,
     order |->
        <<T("Match", <<"to", "sni", "*">>),
          T("Match", <<"to", "sni", "example*">>),
          T("Match", <<"to", "sni", "site*">>),
          T("Match", <<"to", "sni", "example*", "port", "*">>),
          T("Match", <<"to", "sni", "example*", "port", "44*">>),
          T("Match", <<"to", "sni", "example*", "port", "80*">>)>>,
     users |->
        <<T("Divert", <<"from", "user", "root", "desc", "admin">>),
          T("Match", <<"from", "user", "ro*", "desc", "adm*">>),
          T("Split", <<"from", "user", "root*">>),
          T("Split", <<"from", "user", "root">>),
          T("Pass", <<"from", "desc", "admin*">>),
          T("Pass", <<"from", "user", "*", "desc", "admin">>)>>,
     sources |->
        <<T("Block", <<"from", "user", "*">>),
          T("Match", <<"from", "ip", "192.168.0.1*">>),
          T("Match", <<"from", "ip", "192.168.0.1">>),
          T("Divert", <<"from", "*">>),
          T("Pass", <<"from", "ip", "*">>),
          T("Split", <<"from", "user", "daemon", "desc", "admin">>)>>,
     macro |->
        <<T("Match", <<"from", "ip", "$ips", "to", "ip", "192.168.0.3", "port", "$ports">>),
          T("Pass", <<"from", "ip", "192.168.0.1", "to", "sni", "example.com",
                      "port", "$ports", "log", "$logs">>),
          T("Block", <<"from", "ip", "$none">>),
          T("Split", <<"to", "port", "443">>)>>]

\* The Define lines of the macro family.
Defines ==
    <<<<"$ips", "192.168.0.1", "192.168.0.2", "192.168.0.3">>,
      <<"$ports", "80", "443">>,
      <<"$logs", "!master", "!pcap">>>>

MaxTexts == 3

NoOp == [op |-> "none", name |-> "", toks |-> <<>>]

VARIABLES
    fpc,        \* "load" while rules are declared, "compile", then "done"
    ftest,      \* the unit test replayed, 0 in the exploration
    fi,         \* the number of operations applied
    ffam,       \* the family the exploration draws its texts from
    fopts,      \* the Options the rules are declared on
    fbefore,    \* fopts before the last operation
    flast,      \* the last operation
    frv,        \* its return value
    fk,         \* the number of rules filter_set() has compiled
    ffilter,    \* the filter compiled so far
    fprev       \* the filter before the last rule was compiled

fvars == <<fpc, ftest, fi, ffam, fopts, fbefore, flast, frv, fk, ffilter, fprev>>

VARIABLES
    cfam,       \* the family the configuration file draws its lines from
    split,      \* tmp_global_opts->split, the split mode of the command line
    gopts,      \* global->opts
    natengine,  \* the default NAT engine
    specs,      \* global->spec, the listeners, the newest first
    pc,         \* "top", "block" inside a ProxySpec block, "failed"
    nlines,     \* the lines opts_load_conffile() has read
    blines,     \* the lines of the block that went to set_option()
    addrs,      \* the spec_addrs of the block being read
    retval,     \* the return value of opts_load_conffile() so far
    last,       \* history: the directive handled last and what it returned
    seen,       \* history: the address directives the block has accepted
    global,     \* the fields of the global structure but opts and spec
    twin,       \* history: what the last directive leaves given the other way
    arg,        \* the directive drawn where a single directive is applied
    include,    \* flag: tmp_global_opts->include; depth: the included files
                \* being loaded; done: history, those that have been loaded
    parse       \* proxyspec_parse() token by token: argv, the tokens; ps, its
                \* locals; history: handled, how often the loop has stood on
                \* each token; looked, the places of argv it has read

cvars ==
    <<cfam, split, gopts, natengine, specs, pc, nlines, blines, addrs, retval, last, seen,
      global, twin, arg, include, parse>>
vars == <<fvars, cvars>>

\* No directive is drawn.
NoArg == [name |-> "", value |-> ""]

\* No directive has been handled.
NoLine == [name |-> "", value |-> <<>>, rv |-> 0]

\* No file is included.
NoInclude == [flag |-> 0, depth |-> 0, done |-> 0]

\* No declaration is being parsed.
NoParse == [argv |-> <<>>, ps |-> parse_new(0), handled |-> <<>>, looked |-> {}]

\* No configuration file is loaded.
ConfIdle ==
    /\ cfam = "none" /\ split = 0 /\ gopts = opts_new /\ natengine = "netfilter"
    /\ specs = <<>> /\ pc = "top" /\ nlines = 0 /\ blines = 0
    /\ addrs = spec_addrs_new /\ retval = -1
    /\ last = NoLine /\ seen = {} /\ global = global_new /\ twin = <<>>
    /\ arg = NoArg /\ include = NoInclude /\ parse = NoParse

FilterIdle ==
    /\ fpc = "load" /\ fi = 0
    /\ fopts = opts_new /\ fbefore = opts_new
    /\ flast = NoOp /\ frv = 0
    /\ fk = 0 /\ ffilter = NoFilter /\ fprev = NoFilter

UNCHANGED_compile == UNCHANGED <<fk, ffilter, fprev>> /\ UNCHANGED cvars

\* One rule line: filter_rule_set().
DoRule(name, toks) ==
    LET r == filter_rule_set(fopts, name, toks)
    IN  /\ fopts' = r.opts /\ frv' = r.rv /\ fbefore' = fopts
        /\ flast' = [op |-> "rule", name |-> name, toks |-> toks]

\* One Define line: filter_macro_set().
DoMacro(toks) ==
    LET r == filter_macro_set(fopts, toks)
    IN  /\ fopts' = r.opts /\ frv' = r.rv /\ fbefore' = fopts
        /\ flast' = [op |-> "macro", name |-> "Define", toks |-> toks]

\* User authentication turned on.
DoUserAuth ==
    /\ fopts' = [fopts EXCEPT !.user_auth = 1] /\ frv' = 0 /\ fbefore' = fopts
    /\ flast' = [op |-> "user_auth", name |-> "", toks |-> <<>>]

\* filter_set(): the next rule of the list is compiled.
CompileStep ==
    /\ fk < Len(fopts.filter_rules)
    /\ fprev' = ffilter
    /\ ffilter' = filter_rule_compile(ffilter, fopts.filter_rules[fk + 1])
    /\ fk' = fk + 1
    /\ fpc' = IF fk + 1 = Len(fopts.filter_rules) THEN "done" ELSE "compile"
    /\ UNCHANGED <<ftest, fi, ffam, fopts, fbefore, flast, frv>>
    /\ UNCHANGED cvars

(***************************************************************************)
(* The replay of the unit tests.                                           *)
(***************************************************************************)
RefOp == RefTests[ftest][fi + 1]
RefMore == fpc = "load" /\ ftest # 0 /\ fi < Len(RefTests[ftest])

RefRule ==
    /\ RefMore /\ RefOp.op = "rule"
    /\ DoRule(RefOp.name, RefOp.toks)
    /\ fi' = fi + 1
    /\ UNCHANGED <<fpc, ftest, ffam>> /\ UNCHANGED_compile

RefMacro ==
    /\ RefMore /\ RefOp.op = "macro"
    /\ DoMacro(RefOp.toks)
    /\ fi' = fi + 1
    /\ UNCHANGED <<fpc, ftest, ffam>> /\ UNCHANGED_compile

RefUserAuth ==
    /\ RefMore /\ RefOp.op = "user_auth"
    /\ DoUserAuth
    /\ fi' = fi + 1
    /\ UNCHANGED <<fpc, ftest, ffam>> /\ UNCHANGED_compile

RefCompile ==
    /\ ftest \in RefCompiled /\ fi = Len(RefTests[ftest])
    /\ fpc \in {"load", "compile"}
    /\ CompileStep

InitRef ==
    /\ ftest \in 1..Len(RefTests) /\ ffam = "ref"
    /\ FilterIdle /\ ConfIdle

NextRef == RefRule \/ RefMacro \/ RefUserAuth \/ RefCompile

SpecRef == InitRef /\ [][NextRef]_vars

(***************************************************************************)
(* The exploration: up to MaxTexts lines of one family, user               *)
(* authentication turned on at any point, then filter_set().               *)
(***************************************************************************)
FilterMore == fpc = "load" /\ ftest = 0 /\ fi < MaxTexts

FilterRule ==
    /\ FilterMore
    /\ \E k \in 1..Len(Families[ffam]) :
          DoRule(Families[ffam][k].name, Families[ffam][k].toks)
    /\ fi' = fi + 1
    /\ UNCHANGED <<fpc, ftest, ffam>> /\ UNCHANGED_compile

FilterDefine ==
    /\ FilterMore /\ ffam = "macro"
    /\ \E k \in 1..Len(Defines) : DoMacro(Defines[k])
    /\ fi' = fi + 1
    /\ UNCHANGED <<fpc, ftest, ffam>> /\ UNCHANGED_compile

FilterUserAuth ==
    /\ FilterMore /\ ffam \in {"users", "sources"} /\ fopts.user_auth = 0
    /\ DoUserAuth
    /\ UNCHANGED <<fpc, ftest, fi, ffam>> /\ UNCHANGED_compile

FilterCompile ==
    /\ ftest = 0 /\ fi > 0
    /\ fpc \in {"load", "compile"}
    /\ CompileStep

InitFilter ==
    /\ ftest = 0 /\ ffam \in DOMAIN Families
    /\ FilterIdle /\ ConfIdle

NextFilter == FilterRule \/ FilterDefine \/ FilterUserAuth \/ FilterCompile

SpecFilter == InitFilter /\ [][NextFilter]_vars

(***************************************************************************)
(* The configuration file: opts_load_conffile() reads up to MaxLines lines *)
(* of one family, a line a step; of the lines load_proxyspec_struct()      *)
(* reads of a block, up to MaxBlock go to set_option().  A declaration     *)
(* begins while the list has fewer than MaxSpecs listeners.                *)
(***************************************************************************)
L(name, value) == [name |-> name, value |-> value]

\* n user names.
Users(n) == [i \in 1..n |-> "u" \o ToString(i)]

Listen == <<L("Addr", <<"127.0.0.1">>), L("Port", <<"8443">>), L("}", <<>>)>>

Conf ==
    [divert |->
        [top |-> <<L("Divert", <<"no">>), L("Divert", <<"yes">>)>>,
         block |-> Listen \o <<L("DivertPort", <<"8080">>), L("Divert", <<"yes">>),
                               L("Divert", <<"no">>)>>,
         lines |-> <<
            <<"https", "127.0.0.1", "8443">>,
            <<"https", "127.0.0.1", "8443", "up:8080">>,
            <<"https", "127.0.0.1", "8443", "up:8080", "ua:127.0.0.1", "ra:127.0.0.1">>,
            <<"https", "127.0.0.1", "8443", "https", "127.0.0.1", "8444", "up:8080">>,
            <<"https", "127.0.0.1", "8443", "up:8080", "https", "127.0.0.1", "8444">>,
            <<"https", "127.0.0.1", "8443", "tproxy", "ssl", "127.0.0.1", "8444",
              "up:8080">>,
            <<"https", "127.0.0.1", "8443", "up:8080", "192.168.0.1", "443">>,
            <<"https", "127.0.0.1">>,
            <<"https", "127.0.0.1", "8443", "up:8080", "ssl", "127.0.0.1", "8444",
              "sni", "443">> >>],
     inherit |->
        [top |-> <<L("UserTimeout", <<"600">>), L("MaxSSLProto", <<"tls12">>),
                   L("Divert", <<"no">>)>>,
         block |-> Listen \o <<L("DivertPort", <<"8080">>), L("UserTimeout", <<"900">>),
                               L("Ciphers", <<"LOW">>)>>,
         lines |-> << <<"https", "127.0.0.1", "8443", "up:8080">> >>],
     toggles |->
        [top |-> <<L("Passthrough", <<"yes">>), L("Ciphers", <<"HIGH">>),
                   L("UserAuthURL", <<"https://192.168.0.1/userdblogin.php">>)>>,
         block |-> Listen \o <<L("DivertPort", <<"8080">>), L("Passthrough", <<"no">>),
                               L("VerifyPeer", <<"no">>)>>,
         lines |-> << <<"https", "127.0.0.1", "8443", "up:8080">> >>],
     userauth |->
        [top |-> <<L("UserAuth", <<"yes">>), L("UserAuth", <<"no">>),
                   L("Divert", <<"from", "user", "*">>),
                   L("Match", <<"from", "ip", "192.168.0.1">>)>>,
         block |-> Listen \o <<L("UserAuth", <<"yes">>), L("UserAuth", <<"no">>),
                               L("Pass", <<"from", "user", "root">>)>>,
         lines |-> << <<"https", "127.0.0.1", "8443">> >>],
     users |->
        [top |-> <<L("DivertUsers", <<"root,daemon">>), L("PassUsers", <<"admin,", "www">>),
                   L("PassUsers", <<",">>), L("DivertUsers", Users(MAX_USERS)),
                   L("DivertUsers", <<users_str(Users(MAX_USERS + 1))>>)>>,
         block |-> Listen \o <<L("DivertUsers", <<"www">>), L("PassUsers", <<",,">>),
                               L("PassUsers", Users(MAX_USERS + 1))>>,
         lines |-> << <<"https", "127.0.0.1", "8443">> >>],
     listener |->
        [top |-> <<L("Passthrough", <<"yes">>)>>,
         block |-> <<L("Addr", <<"127.0.0.1">>), L("Port", <<"8443">>),
                     L("Port", <<"x">>), L("TargetAddr", <<"192.168.0.1">>),
                     L("TargetPort", <<"443">>), L("}", <<>>)>>,
         lines |-> << <<"https", "127.0.0.1", "x">> >>],
     target |->
        [top |-> <<L("NATEngine", <<"tproxy">>)>>,
         block |-> Listen \o <<L("Proto", <<"ssl">>),
                               L("TargetAddr", <<"192.168.0.1">>),
                               L("TargetPort", <<"443">>), L("SNIPort", <<"443">>),
                               L("NatEngine", <<"tproxy">>)>>,
         lines |-> <<
            <<"ssl", "127.0.0.1", "8443", "sni", "443">>,
            <<"ssl", "127.0.0.1", "8443", "tproxy">>,
            <<"ssl", "127.0.0.1", "8443", "192.168.0.1", "443">>,
            <<"ssl", "127.0.0.1", "8443", "up:8080", "192.168.0.1", "443">> >>],
     sni |->
        [top |-> <<L("Passthrough", <<"yes">>)>>,
         block |-> Listen \o <<L("Proto", <<"ssl">>), L("Proto", <<"pop3s">>),
                               L("Proto", <<"tcp">>), L("SNIPort", <<"443">>)>>,
         lines |-> <<
            <<"tcp", "127.0.0.1", "8443", "sni", "443">>,
            <<"ssl", "127.0.0.1", "8443", "sni", "443">>,
            <<"http", "127.0.0.1", "8080", "sni", "80">>,
            <<"https", "127.0.0.1", "8443", "sni", "443">>,
            <<"autossl", "127.0.0.1", "8025", "sni", "25">>,
            <<"pop3", "127.0.0.1", "8110", "sni", "110">>,
            <<"pop3s", "127.0.0.1", "8995", "sni", "995">>,
            <<"smtp", "127.0.0.1", "8025", "sni", "25">>,
            <<"smtps", "127.0.0.1", "8465", "sni", "465">> >>],
     engine |->
        [top |-> <<L("NATEngine", <<"pf">>)>>,
         block |-> Listen \o <<L("NATEngine", <<"tproxy">>), L("NATEngine", <<"pf">>)>>,
         lines |-> <<
            <<"ssl", "127.0.0.1", "8443">>,
            <<"ssl", "127.0.0.1", "8443", "tproxy">>,
            <<"ssl", "127.0.0.1", "8443", "netfilter">> >>],
     include |->
        [top |-> <<L("Define", <<"$ips", "192.168.0.1", "192.168.0.2">>),
                   L("Match", <<"from", "ip", "$ips">>)>>,
         block |-> Listen \o <<L("Pass", <<"from", "ip", "$ips">>),
                               L("Divert", <<"from", "ip", "192.168.0.1">>),
                               L("Divert", <<"YES">>)>>,
         lines |-> << <<"https", "127.0.0.1", "8443">> >>]]

\* The files an Include directive names: one that opens and one that does not.
IncludeFiles == << <<"/etc/sslproxy/include.conf">>, <<"/missing">> >>

MaxLines == 3
MaxBlock == 1
MaxSpecs == 1

More == pc = "top" /\ nlines < MaxLines

\* The directives of a block that name an address a later directive needs.
AddrNames == {"Addr", "TargetAddr"}

\* The directives of a block that set_proxyspec_option() handles itself.
SpecNames ==
    {"Proto", "Addr", "Port", "DivertAddr", "DivertPort", "ReturnAddr", "TargetAddr",
     "TargetPort", "SNIPort", "NatEngine", "}"}

\* A line with a directive of the global structure.
ConfLine ==
    /\ More
    /\ \E k \in 1..Len(Conf[cfam].top) :
       \E r \in {set_global_option(global, gopts, Conf[cfam].top[k].name,
                                     Conf[cfam].top[k].value, natengine)} :
              /\ global' = r.global
              /\ gopts' = r.opts /\ natengine' = r.natengine /\ retval' = r.rv
              /\ pc' = IF r.rv = -1 THEN "failed" ELSE "top"
              /\ last' = [name |-> Conf[cfam].top[k].name,
                          value |-> Conf[cfam].top[k].value, rv |-> r.rv]
    /\ nlines' = nlines + 1
    /\ UNCHANGED <<cfam, split, specs, blines, addrs, seen, twin, arg, include, parse>> /\ UNCHANGED fvars

\* A one-line declaration: load_proxyspec_line().
ProxySpecLine ==
    /\ More /\ Len(specs) < MaxSpecs
    /\ \E k \in 1..Len(Conf[cfam].lines) :
       \E r \in {load_proxyspec_line(specs, Conf[cfam].lines[k], gopts, natengine,
                                       split)} :
              /\ specs' = r.specs /\ retval' = r.rv
              /\ pc' = IF r.rv = -1 THEN "failed" ELSE "top"
              /\ last' = [name |-> "ProxySpec", value |-> Conf[cfam].lines[k],
                          rv |-> r.rv]
    /\ nlines' = nlines + 1
    /\ UNCHANGED <<cfam, split, gopts, natengine, blines, addrs, seen, global, twin, arg, include, parse>>
    /\ UNCHANGED fvars

\* load_proxyspec_struct(): the line "ProxySpec {".
BlockOpen ==
    /\ More /\ Len(specs) < MaxSpecs
    /\ specs' = <<proxyspec_set_return_addr(proxyspec_new(gopts), "127.0.0.1").spec>>
                    \o specs
    /\ addrs' = spec_addrs_new /\ seen' = {}
    /\ last' = [name |-> "ProxySpec", value |-> <<"{">>, rv |-> 0]
    /\ pc' = "block" /\ nlines' = nlines + 1 /\ blines' = 0
    /\ UNCHANGED <<cfam, split, gopts, natengine, retval, global, twin, arg, include, parse>>
    /\ UNCHANGED fvars

\* A line of the block: set_proxyspec_option(), and set_divert() behind the
\* closing brace.
BlockLine ==
    /\ pc = "block"
    /\ \E k \in 1..Len(Conf[cfam].block) :
       /\ Conf[cfam].block[k].name \in SpecNames \/ blines < MaxBlock
       /\ blines' = IF Conf[cfam].block[k].name \in SpecNames THEN blines ELSE blines + 1
       /\ \E r \in {set_proxyspec_option(specs[1], Conf[cfam].block[k].name,
                                        Conf[cfam].block[k].value, natengine, addrs)} :
          LET s1 == [r.spec EXCEPT !.named = @ \cup ({Conf[cfam].block[k].name} \ SpecNames),
                                   !.setting = r.spec.opts.divert]
          IN  /\ specs' = WithHead(specs,
                              IF r.rv = 2 THEN [set_divert(s1, split) EXCEPT !.done = TRUE]
                              ELSE s1)
              /\ addrs' = r.addrs /\ natengine' = r.natengine
              /\ pc' = IF r.rv = -1 THEN "failed" ELSE IF r.rv = 2 THEN "top" ELSE "block"
              /\ retval' = IF r.rv = 2 THEN 0 ELSE r.rv
              /\ last' = [name |-> Conf[cfam].block[k].name,
                          value |-> Conf[cfam].block[k].value, rv |-> r.rv]
              /\ seen' = IF r.rv = 0 /\ Conf[cfam].block[k].name \in AddrNames
                         THEN seen \cup {Conf[cfam].block[k].name} ELSE seen
    /\ UNCHANGED <<cfam, split, gopts, nlines, global, twin, arg, include, parse>> /\ UNCHANGED fvars

\* The file ends inside the block: no closing brace.
BlockEOF ==
    /\ pc = "block"
    /\ pc' = "failed" /\ retval' = -1
    /\ last' = [name |-> "", value |-> <<>>, rv |-> -1]
    /\ UNCHANGED <<cfam, split, gopts, natengine, specs, nlines, blines, addrs, seen,
                   global, twin, arg, include, parse>>
    /\ UNCHANGED fvars

\* set_global_option(), Include: the directive is in an included file.
Nested_never(inc) == FALSE
Nested(inc) == inc.flag # 0

\* A line with an Include directive: refused in an included file; else the
\* flag is set and opts_load_conffile() begins on the file named, whose lines
\* are the lines that follow, or cannot open it and the flag is cleared.
IncludeLine ==
    /\ More /\ cfam = "include"
    /\ \E k \in 1..Len(IncludeFiles) :
          /\ last' = [name |-> "Include", value |-> IncludeFiles[k],
                      rv |-> IF Nested(include) \/ Missing(IncludeFiles[k]) THEN -1 ELSE 0]
          /\ IF Nested(include)
             THEN include' = include /\ pc' = "failed"
             ELSE IF Missing(IncludeFiles[k])
             THEN include' = [include EXCEPT !.flag = 0] /\ pc' = "failed"
             ELSE include' = [include EXCEPT !.flag = 1, !.depth = @ + 1] /\ pc' = "top"
    /\ retval' = -1 /\ nlines' = nlines + 1
    /\ UNCHANGED <<cfam, split, gopts, natengine, specs, blines, addrs, seen, global,
                   twin, arg, parse>>
    /\ UNCHANGED fvars

\* The included file ends or a line of it has failed: opts_load_conffile()
\* returns to the Include directive, which clears the flag and returns what
\* the file returned.
IncludeReturn ==
    /\ include.depth > 0 /\ pc \in {"top", "failed"}
    /\ include' = [flag |-> 0, depth |-> include.depth - 1, done |-> include.done + 1]
    /\ pc' = IF retval = -1 THEN "failed" ELSE "top"
    /\ last' = [name |-> "Include", value |-> <<>>, rv |-> retval]
    /\ UNCHANGED <<cfam, split, gopts, natengine, specs, nlines, blines, addrs, retval,
                   seen, global, twin, arg, parse>>
    /\ UNCHANGED fvars

Init ==
    /\ cfam \in DOMAIN Conf /\ split \in {0, 1}
    /\ gopts = opts_new /\ natengine = "netfilter"
    /\ specs = <<>> /\ pc = "top" /\ nlines = 0 /\ blines = 0
    /\ addrs = spec_addrs_new /\ retval = -1
    /\ last = NoLine /\ seen = {} /\ global = global_new /\ twin = <<>>
    /\ arg = NoArg /\ include = NoInclude /\ parse = NoParse
    /\ ftest = 0 /\ ffam = "none" /\ FilterIdle

Next ==
    \/ ConfLine \/ ProxySpecLine \/ BlockOpen \/ BlockLine \/ BlockEOF
    \/ IncludeLine \/ IncludeReturn

Spec == Init /\ [][Next]_vars

(***************************************************************************)
(* Directives one by one: up to MaxOpts directives of one family, each     *)
(* given as a line of a configuration file or as an option of the command  *)
(* line.  twin is what the same directive leaves, from the same state,     *)
(* given the other way.  The block of a "ProxySpec {" line is the lines    *)
(* that follow it in the file.                                             *)
(***************************************************************************)
O(name, value) == [name |-> name, value |-> value]

Opts ==
    [numeric |->
        <<O("UserTimeout", "0"), O("UserTimeout", "86400"), O("UserTimeout", "86401"),
          O("UserTimeout", "-1"),
          O("MaxHTTPHeaderSize", "1024"), O("MaxHTTPHeaderSize", "65536"),
          O("MaxHTTPHeaderSize", "1023"), O("MaxHTTPHeaderSize", "65537"),
          O("ConnIdleTimeout", "10"), O("ConnIdleTimeout", "3600"),
          O("ConnIdleTimeout", "9"), O("ConnIdleTimeout", "3601"),
          O("ConnIdleTimeout", "-10"), O("ConnIdleTimeout", "4294967306"),
          O("ExpiredConnCheckPeriod", "10"), O("ExpiredConnCheckPeriod", "60"),
          O("ExpiredConnCheckPeriod", "9"), O("ExpiredConnCheckPeriod", "61"),
          O("StatsPeriod", "1"), O("StatsPeriod", "10"), O("StatsPeriod", "0"),
          O("StatsPeriod", "11"),
          O("LeafKeyRSABits", "1024"), O("LeafKeyRSABits", "4096"),
          O("LeafKeyRSABits", "2047"), O("LeafKeyRSABits", "-2048"),
          O("OpenFilesLimit", "50"), O("OpenFilesLimit", "10000"),
          O("OpenFilesLimit", "49"), O("OpenFilesLimit", "10001")>>,
     cmdline |->
        <<O("Ciphers", "HIGH"), O("Divert", "no"),
          O("UserAuthURL", "https://192.168.0.1/userdblogin.php?next="),
          O("Define", "$ips 192.168.0.1 192.168.0.2"), O("Pass", "from ip $ips"),
          O("DivertUsers", "root, daemon"), O("ConnIdleTimeout", "60"),
          O("ProxySpec", "https 127.0.0.1 8443 up:8080"), O("ProxySpec", "{"),
          O("NoSuchOption", "yes"), O("Passthrough", "")>>]

MaxOpts == 2

\* Names of directives, each with a value its setter accepts: the names of
\* sslproxy.conf(5) but Include, and names it does not list.
NameSamples ==
    <<O("CACert", "/etc/sslproxy/ca.crt"), O("CAKey", "/etc/sslproxy/ca.key"),
      O("ClientCert", "/etc/sslproxy/client.crt"),
      O("ClientKey", "/etc/sslproxy/client.key"),
      O("CAChain", "/etc/sslproxy/chain.crt"), O("LeafKey", "/etc/sslproxy/leaf.key"),
      O("LeafCRLURL", "http://example.com/example.crl"),
      O("LeafCertDir", "/etc/sslproxy/leaf"),
      O("DefaultLeafCert", "/etc/sslproxy/leaf.pem"),
      O("WriteGenCertsDir", "/var/log/sslproxy/gen"),
      O("WriteAllCertsDir", "/var/log/sslproxy/all"),
      O("DenyOCSP", "yes"), O("Passthrough", "yes"),
      O("DHGroupParams", "/etc/sslproxy/dh.pem"), O("ECDHCurve", "prime256v1"),
      O("SSLCompression", "no"), O("ForceSSLProto", "tls12"),
      O("DisableSSLProto", "tls10"), O("EnableSSLProto", "tls10"),
      O("MinSSLProto", "tls11"), O("MaxSSLProto", "tls12"),
      O("Ciphers", "HIGH"), O("CipherSuites", "TLS_AES_128_CCM_SHA256"),
      O("LeafKeyRSABits", "1024"), O("OpenSSLEngine", "cloudhsm"),
      O("NATEngine", "tproxy"), O("User", "nobody"), O("Group", "nobody"),
      O("Chroot", "/var/run/sslproxy"), O("PidFile", "/var/run/sslproxy.pid"),
      O("ConnectLog", "/var/log/sslproxy/connect.log"),
      O("ContentLog", "/var/log/sslproxy/content.log"),
      O("ContentLogDir", "/var/log/sslproxy/content"),
      O("ContentLogPathSpec", "/var/log/sslproxy/%X/%u-%s-%d-%T.log"),
      O("LogProcInfo", "yes"), O("PcapLog", "/var/log/sslproxy/content.pcap"),
      O("PcapLogDir", "/var/log/sslproxy/pcap"),
      O("PcapLogPathSpec", "/var/log/sslproxy/%X/%u-%s-%d-%T.pcap"),
      O("MirrorIf", "lo"), O("MirrorTarget", "192.0.2.1"),
      O("MasterKeyLog", "/var/log/sslproxy/masterkeys.log"),
      O("Daemon", "yes"), O("Debug", "no"), O("DebugLevel", "2"),
      O("ConnIdleTimeout", "120"), O("ExpiredConnCheckPeriod", "10"),
      O("LogStats", "yes"), O("StatsPeriod", "1"),
      O("RemoveHTTPAcceptEncoding", "no"), O("RemoveHTTPReferer", "yes"),
      O("VerifyPeer", "yes"), O("AllowWrongHost", "no"), O("UserAuth", "yes"),
      O("DivertUsers", "root,daemon"), O("PassUsers", "www"),
      O("UserDBPath", "/var/db/users.db"), O("UserTimeout", "300"),
      O("UserAuthURL", "https://192.168.0.1/userdblogin.php"),
      O("ValidateProto", "yes"), O("MaxHTTPHeaderSize", "8192"),
      O("OpenFilesLimit", "1024"), O("Divert", "yes"), O("PassSite", "example.com"),
      O("Define", "$ips 192.168.0.1 192.168.0.2"),
      O("Divert", "from ip 192.168.0.1"), O("Split", "from ip 192.168.0.1"),
      O("Pass", "from ip 192.168.0.1"), O("Block", "from ip 192.168.0.1"),
      O("Match", "from ip 192.168.0.1"),
      O("FilterRule", "{"), O("ProxySpec", "https 127.0.0.1 8443"),
      O("ProxySpec", "{"),
      O("Proto", "https"), O("divert", "yes"), O("NoSuchOption", "yes")>>

\* The state a directive is applied to.
St ==
    [rv |-> retval, global |-> global, opts |-> gopts, natengine |-> natengine,
     specs |-> specs, crash |-> FALSE]

OptMore == pc = "top" /\ nlines < MaxOpts

\* The directive o, given the way via, leaves out; given the other way, t.
Left(o, via, out, t) ==
    /\ global' = out.global /\ gopts' = out.opts /\ natengine' = out.natengine
    /\ specs' = out.specs /\ retval' = out.rv
    /\ pc' = IF out.crash THEN "crashed" ELSE IF out.rv = -1 THEN "failed" ELSE "top"
    /\ last' = [name |-> o.name, value |-> <<o.value>>, rv |-> out.rv, via |-> via]
    /\ twin' = t
    /\ nlines' = nlines + 1
    /\ UNCHANGED <<cfam, split, blines, addrs, seen, arg, include, parse>> /\ UNCHANGED fvars

\* The directive is a line of a configuration file.
OptLine ==
    /\ OptMore
    /\ \E k \in 1..Len(Opts[cfam]) :
       \E out \in opts_load_conffile_line(St, split,
                        Opts[cfam][k].name \o " " \o Opts[cfam][k].value, Listen) :
       \E t \in global_set_option(St, split,
                        Opts[cfam][k].name \o "=" \o Opts[cfam][k].value) :
            Left(Opts[cfam][k], "conf", out, t)

\* The directive is an option of the command line.
OptArg ==
    /\ OptMore
    /\ \E k \in 1..Len(Opts[cfam]) :
       \E out \in global_set_option(St, split,
                        Opts[cfam][k].name \o "=" \o Opts[cfam][k].value) :
       \E t \in opts_load_conffile_line(St, split,
                        Opts[cfam][k].name \o " " \o Opts[cfam][k].value, Listen) :
            Left(Opts[cfam][k], "cmdline", out, t)

InitOpt ==
    /\ cfam \in DOMAIN Opts /\ split = 0
    /\ gopts = opts_new /\ natengine = "netfilter"
    /\ specs = <<>> /\ pc = "top" /\ nlines = 0 /\ blines = 0
    /\ addrs = spec_addrs_new /\ retval = -1
    /\ last = NoLine /\ seen = {} /\ global = global_new /\ twin = <<>>
    /\ arg = NoArg /\ include = NoInclude /\ parse = NoParse
    /\ ftest = 0 /\ ffam = "none" /\ FilterIdle

NextOpt == OptLine \/ OptArg

SpecOpt == InitOpt /\ [][NextOpt]_vars

(***************************************************************************)
(* One directive of NameSamples, on the defaults, as a line of a           *)
(* configuration file or as an option of the command line.                 *)
(***************************************************************************)
NameLine ==
    /\ pc = "top" /\ arg # NoArg /\ last = NoLine
    /\ \E out \in opts_load_conffile_line(St, split, arg.name \o " " \o arg.value, Listen) :
       \E t \in global_set_option(St, split, arg.name \o "=" \o arg.value) :
            Left(arg, "conf", out, t)

NameArg ==
    /\ pc = "top" /\ arg # NoArg /\ last = NoLine
    /\ \E out \in global_set_option(St, split, arg.name \o "=" \o arg.value) :
       \E t \in opts_load_conffile_line(St, split, arg.name \o " " \o arg.value, Listen) :
            Left(arg, "cmdline", out, t)

InitName ==
    /\ cfam = "none" /\ split = 0
    /\ gopts = opts_new /\ natengine = "netfilter"
    /\ specs = <<>> /\ pc = "top" /\ nlines = 0 /\ blines = 0
    /\ addrs = spec_addrs_new /\ retval = -1
    /\ last = NoLine /\ seen = {} /\ global = global_new /\ twin = <<>>
    /\ arg \in Range(NameSamples) /\ include = NoInclude /\ parse = NoParse
    /\ ftest = 0 /\ ffam = "none" /\ FilterIdle

NextName == NameLine \/ NameArg

SpecName == InitName /\ [][NextName]_vars

(***************************************************************************)
(* Properties of the listeners and of the Options.                         *)
(***************************************************************************)
Listeners == Range(specs)

\* C1: once its declaration has been processed, the divert flag of every
\* listener is off with the split flag, else off without a divert address,
\* else the listener's own Divert setting.
C1_EffectiveDivert ==
    \A l \in Listeners :
        l.done => l.opts.divert = IF split # 0 THEN 0
                                  ELSE IF l.conn_dst = "" THEN 0
                                  ELSE l.setting

\* The option fields with a single value, and the directive that sets each.
Directive ==
    [divert |-> "Divert", sslcomp |-> "SSLCompression", passthrough |-> "Passthrough",
     deny_ocsp |-> "DenyOCSP",
     remove_http_accept_encoding |-> "RemoveHTTPAcceptEncoding",
     remove_http_referer |-> "RemoveHTTPReferer", verify_peer |-> "VerifyPeer",
     allow_wrong_host |-> "AllowWrongHost", validate_proto |-> "ValidateProto",
     user_auth |-> "UserAuth", user_timeout |-> "UserTimeout",
     max_http_header_size |-> "MaxHTTPHeaderSize",
     minsslversion |-> "MinSSLProto", maxsslversion |-> "MaxSSLProto",
     ciphers |-> "Ciphers", ciphersuites |-> "CipherSuites",
     user_auth_url |-> "UserAuthURL"]
Overridden(l, f) == Directive[f] \in l.named
Inherited(l, f) == l.opts[f] = l.own[f]

\* C2 as stated: every single-valued option field of every listener, divert
\* included, has the value of the global Options at the listener's declaration
\* unless a directive of the listener's block names it.
C2_InheritedAll ==
    \A l \in Listeners : \A f \in DOMAIN Directive :
        ~Overridden(l, f) => Inherited(l, f)

\* C2: every single-valued option field of every listener has the value of the
\* global Options at the listener's declaration, at every later point, unless
\* a directive of the listener's block names it, or it is the divert flag and
\* the end of the declaration turned it off, with the split flag set or
\* without a divert address.
C2_InheritedButDivert ==
    \A l \in Listeners : \A f \in DOMAIN Directive :
        ~Overridden(l, f) =>
            \/ Inherited(l, f)
            \/ /\ f = "divert" /\ l.done /\ l.opts.divert = 0
               /\ split # 0 \/ l.conn_dst = ""

\* A listener declared after a global UserTimeout, whose block overrides the
\* ciphers, and a global directive behind its declaration.
C2_Witness ==
    \E l \in Listeners :
        /\ l.done /\ pc = "top"
        /\ l.own.user_timeout = 600 /\ l.opts.user_timeout = 600
        /\ Overridden(l, "ciphers") /\ l.opts.ciphers = "LOW" /\ l.own.ciphers = ""
        /\ l.opts.divert = 1
        /\ gopts # l.own

\* A rule with a user or description predicate.
UserRule(r) == r.user # "" \/ r.keyword # "" \/ r.all_users

\* C8: no Options, global or of a listener, with user authentication off holds
\* a rule with a user or description predicate.
C8_NoUserRuleWithoutUserAuth ==
    \A o \in {gopts} \cup {l.opts : l \in Listeners} :
        o.user_auth = 0 => \A r \in Range(o.filter_rules) : ~UserRule(r)

(***************************************************************************)
(* Properties of the rule parser.                                          *)
(***************************************************************************)
Rules == fopts.filter_rules
Added == SubSeq(Rules, Len(fbefore.filter_rules) + 1, Len(Rules))
AnyLog(r) == \E n \in Range(LogNames) : r.log[n] # LogOff

\* The precedence as section 4.3 of the specification computes it.
SpecPrecedence(r) ==
    Bit(r.user # "" \/ r.keyword # "" \/ r.ip # "")
    + Bit(r.site # "") + Bit(r.port # "")
    + Bit(r.action = "Block") + Bit(AnyLog(r))

LastClauses == ParseClauses(flast.toks, 1, NoClauses)
ValueSet(t) == IF IsMacro(t) THEN Range(SlotValues(fbefore.macro, t)) ELSE {t}
LogSet(c) ==
    IF LogIsMacro(c) THEN {<<v>> : v \in Range(SlotValues(fbefore.macro, c.logs[1]))}
    ELSE {c.logs}
\* The rule carries exactly these values in its slots.
Carries(r, c, u, d, i, st, pt, l) ==
    /\ r.user = (IF c.has_user THEN Stored(u) ELSE "")
    /\ r.keyword = (IF c.has_desc THEN Stored(d) ELSE "")
    /\ r.ip = (IF c.has_ip THEN Stored(i) ELSE "")
    /\ r.site = (IF c.has_site THEN Stored(st) ELSE "")
    /\ r.port = (IF c.has_port THEN Stored(pt) ELSE "")
    /\ r.log = LogOfTokens(NoLog, l)

\* C6: an accepted rule text with k macro slots of n_1..n_k values adds
\* exactly n_1*...*n_k rules, one for each combination of macro values, each
\* with a single value per slot (a single channel for a log macro); a text
\* without macros adds exactly one rule.
C6_MacroProduct ==
    (flast.op = "rule" /\ frv >= 0) =>
        LET c == LastClauses
        IN  /\ Len(Added) = Cardinality(ValueSet(c.user)) * Cardinality(ValueSet(c.desc))
                            * Cardinality(ValueSet(c.ip)) * Cardinality(ValueSet(c.site))
                            * Cardinality(ValueSet(c.port)) * Cardinality(LogSet(c))
            /\ \A u \in ValueSet(c.user), d \in ValueSet(c.desc), i \in ValueSet(c.ip),
                  st \in ValueSet(c.site), pt \in ValueSet(c.port), l \in LogSet(c) :
                  \E k \in 1..Len(Added) : Carries(Added[k], c, u, d, i, st, pt, l)
            /\ ~HasMacro(c) => Len(Added) = 1 /\ frv = 0
            /\ HasMacro(c) => frv = 1
            /\ \A k \in 1..Len(Added) : ~IsMacro(Added[k].user) /\ ~IsMacro(Added[k].port)

\* A text with a three-valued and a two-valued macro has added six rules.
C6_Witness ==
    /\ ftest = 0 /\ flast.op = "rule" /\ frv = 1
    /\ IsMacro(LastClauses.ip) /\ IsMacro(LastClauses.port)
    /\ Cardinality(ValueSet(LastClauses.ip)) = 3
    /\ Cardinality(ValueSet(LastClauses.port)) = 2
    /\ Len(Added) = 6

FromUserOrDesc(toks) ==
    \E i \in 1..(Len(toks) - 1) :
        \/ toks[i] = "from" /\ toks[i + 1] \in {"user", "desc"}
        \/ toks[i] = "desc"
AnyMacro(toks) == \E i \in 1..Len(toks) : IsMacro(toks[i])

\* C7: with user authentication off a rule text with a from user or desc
\* predicate (a name, *, or a macro) is rejected with -1 and adds no rule,
\* for each action; with user authentication on the same texts are accepted
\* with 0, or with 1 when a macro is expanded; both as the tests expect.
C7_UserAuthGate ==
    (ftest # 0 /\ flast.op = "rule" /\ FromUserOrDesc(flast.toks)) =>
        /\ frv = RefTests[ftest][fi].rv
        /\ IF fbefore.user_auth = 0
           THEN frv = -1 /\ fopts = fbefore
           ELSE /\ frv = (IF AnyMacro(flast.toks) THEN 1 ELSE 0)
                /\ Len(Rules) > Len(fbefore.filter_rules)

\* A Block text with a user macro and a description has been rejected for
\* want of user authentication.
C7_Witness ==
    /\ ftest # 0 /\ flast.op = "rule" /\ flast.name = "Block"
    /\ FromUserOrDesc(flast.toks) /\ AnyMacro(flast.toks)
    /\ fbefore.user_auth = 0 /\ fbefore.macro # <<>> /\ frv = -1

(***************************************************************************)
(* Properties of the compiled filter.  A leaf is named by its place:       *)
(* bucket, bucket key, keyword variant and keyword (below a user of the    *)
(* userkeyword buckets), site list, site, "site" or the port variant, port.*)
(***************************************************************************)
FlatBuckets == {"all_user_filter", "all_filter"}
KeyedBuckets ==
    {"user_filter_exact", "user_filter_substr", "keyword_filter_exact",
     "keyword_filter_substr", "ip_filter_exact", "ip_filter_substr"}
UserKeywordBuckets == {"userkeyword_filter_exact", "userkeyword_filter_substr"}

\* Every group of site lists of the filter, with its place.
Flists(f) ==
    {[at |-> <<b, "", "", "">>, list |-> f[b]] : b \in FlatBuckets}
    \cup UNION {{[at |-> <<b, n.key, "", "">>, list |-> n.list] : n \in Range(f[b])}
                  : b \in KeyedBuckets}
    \cup UNION {UNION {{[at |-> <<b, u.key, "exact", k.key>>, list |-> k.list]
                           : k \in Range(u.keyword_exact)}
                       \cup {[at |-> <<b, u.key, "substr", k.key>>, list |-> k.list]
                               : k \in Range(u.keyword_substr)}
                         : u \in Range(f[b])}
                  : b \in UserKeywordBuckets}

SiteNodes(f) ==
    UNION {UNION {{[at |-> x.at \o <<n, s.key>>, node |-> s] : s \in Range(x.list[n])}
                    : n \in DOMAIN x.list}
             : x \in Flists(f)}

LeafRec(at, n) ==
    [at |-> at, action |-> n.action, log |-> n.log, precedence |-> n.precedence]

Leaves(f) ==
    {LeafRec(y.at \o <<"site", "">>, y.node) : y \in SiteNodes(f)}
    \cup UNION {{LeafRec(y.at \o <<"port_exact", p.key>>, p) : p \in Range(y.node.port_exact)}
                \cup {LeafRec(y.at \o <<"port_substr", p.key>>, p)
                        : p \in Range(y.node.port_substr)}
                  : y \in SiteNodes(f)}

\* The source bucket of a rule, by its source predicate.
SourceBucket(r) ==
    LET variant(e) == IF e THEN "_exact" ELSE "_substr"
    IN  IF r.user # "" /\ r.keyword # "" THEN "userkeyword_filter" \o variant(r.exact_user)
        ELSE IF r.user # "" THEN "user_filter" \o variant(r.exact_user)
        ELSE IF r.keyword # "" THEN "keyword_filter" \o variant(r.exact_keyword)
        ELSE IF r.all_users THEN "all_user_filter"
        ELSE IF r.ip # "" THEN "ip_filter" \o variant(r.exact_ip)
        ELSE "all_filter"

\* The places of the leaves a rule targets, one for each site list.
TargetAt(r, n) ==
    LET b == SourceBucket(r)
        src == IF b \in UserKeywordBuckets
               THEN <<b, r.user, IF r.exact_keyword THEN "exact" ELSE "substr", r.keyword>>
               ELSE IF b \in FlatBuckets THEN <<b, "", "", "">>
               ELSE IF r.user # "" THEN <<b, r.user, "", "">>
               ELSE IF r.keyword # "" THEN <<b, r.keyword, "", "">>
               ELSE <<b, r.ip, "", "">>
    IN  src \o <<n, r.site>>
        \o (IF ~HasPort(r) THEN <<"site", "">>
            ELSE IF r.exact_port THEN <<"port_exact", r.port>>
            ELSE <<"port_substr", r.port>>)

Targets(r) == {TargetAt(r, n) : n \in ListsOf(r)}

NoLeaf(at) == [at |-> at, action |-> {}, log |-> NoLog, precedence |-> 0]
\* In a set of leaves: is there a leaf at this place, and the leaf there.
PresentIn(ls, at) == \E l \in ls : l.at = at
LeafIn(ls, at) == IF PresentIn(ls, at) THEN CHOOSE l \in ls : l.at = at ELSE NoLeaf(at)
Present(f, at) == PresentIn(Leaves(f), at)
LeafAt(f, at) == LeafIn(Leaves(f), at)

\* The rule filter_set() compiled last.
Compiled == Rules[fk]

\* C4: a rule is applied to the leaf it targets only if its precedence is
\* not below the leaf's: then its action bit joins the leaf's actions and the
\* leaf takes its precedence; with a lower precedence the leaf's actions, log
\* and precedence stay as they were.  No leaf's precedence ever decreases.
C4_LeafPrecedence ==
    fk > 0 =>
        LET before == Leaves(fprev)
            after == Leaves(ffilter)
        IN  /\ \A at \in Targets(Compiled) :
                  LET old == LeafIn(before, at)
                      new == LeafIn(after, at)
                  IN  /\ PresentIn(after, at)
                      /\ IF Compiled.precedence >= old.precedence
                         THEN /\ new.action = old.action \cup {Compiled.action}
                              /\ new.precedence = Compiled.precedence
                         ELSE new = old
            /\ \A old \in before :
                  \E new \in after : new.at = old.at /\ new.precedence >= old.precedence

\* A Block rule of lower precedence has been compiled onto a leaf that holds
\* an action of a higher precedence, and a rule of higher precedence onto a
\* leaf that held a lower one.
C4_Witness ==
    /\ fk > 1 /\ Compiled.action = "Block"
    /\ \E at \in Targets(Compiled) :
          /\ Present(fprev, at)
          /\ LeafAt(fprev, at).precedence > Compiled.precedence
          /\ LeafAt(fprev, at).action # {}
          /\ LeafAt(ffilter, at).action = LeafAt(fprev, at).action
          /\ "Block" \notin LeafAt(ffilter, at).action

\* The log of two rules on one leaf: every channel either sets, a negated
\* channel clearing the set one.
LogOr(a, b) ==
    [n \in Range(LogNames) |->
        IF a[n] = LogNeg \/ b[n] = LogNeg THEN LogNeg
        ELSE IF a[n] = LogPos \/ b[n] = LogPos THEN LogPos ELSE LogOff]

SubstrLists == {"ip_substr", "sni_substr", "cn_substr", "host_substr", "uri_substr"}
SiteSubstrLists(f) == {x.list[n] : x \in Flists(f), n \in SubstrLists}
PortSubstrLists(f) == {y.node.port_substr : y \in SiteNodes(f)}
AllIsLast(list) ==
    \A k \in 1..Len(list) : (list[k].all \/ list[k].key = "") => k = Len(list)

\* C9: in every compiled site-substring list the all_sites entry is the last
\* element and in every port-substring list the all_ports entry is the last,
\* whatever the order the rules were declared in.
C9_AllLast ==
    /\ \A list \in SiteSubstrLists(ffilter) : AllIsLast(list)
    /\ \A list \in PortSubstrLists(ffilter) : AllIsLast(list)

\* The rule for all sites was declared first, two substring sites after it,
\* and the list of the three has the all_sites entry last.
C9_Witness ==
    /\ fpc = "done" /\ Len(Rules) = 3
    /\ Rules[1].all_sites /\ ~HasPort(Rules[1])
    /\ \E list \in SiteSubstrLists(ffilter) :
          /\ Len(list) = 3 /\ list[3].all
          /\ list[1].key = Rules[3].site /\ list[2].key = Rules[2].site

Buckets == FlatBuckets \cup KeyedBuckets \cup UserKeywordBuckets

\* C10: each rule is compiled into exactly one source bucket, the one of its
\* source predicate in the exact or substring variant of the predicate's
\* exact flag: all its leaves are there, and no other bucket changes.
C10_OneBucket ==
    fk > 0 =>
        LET after == Leaves(ffilter)
        IN  /\ \A at \in Targets(Compiled) : PresentIn(after, at)
            /\ \A b \in Buckets \ {SourceBucket(Compiled)} : ffilter[b] = fprev[b]
            /\ ffilter[SourceBucket(Compiled)] # NoFilter[SourceBucket(Compiled)]

\* A rule of a named user with a description has been compiled into the
\* userkeyword bucket while rules of other sources were compiled before it.
C10_Witness ==
    /\ fk > 1 /\ Compiled.user # "" /\ Compiled.keyword # ""
    /\ SourceBucket(Compiled) \in UserKeywordBuckets
    /\ ffilter[SourceBucket(Compiled)] # fprev[SourceBucket(Compiled)]
    /\ \E b \in Buckets \ UserKeywordBuckets : fprev[b] # NoFilter[b]

(***************************************************************************)
(* Properties of the listener declarations.                                *)
(***************************************************************************)
\* The directive handled last was this one of a block and returned rv.
Returned(name, rv) == last.name = name /\ last.rv = rv

\* C13: a ProxySpec block is accepted, at its closing brace, only if an Addr
\* directive has been given and the listen address and port have been parsed
\* to an address family, which the listener then holds.
C13_AcceptedBlockListens ==
    Returned("}", 2) =>
        /\ "Addr" \in seen
        /\ addrs.af = AF_INET
        /\ specs[1].listen # ""

\* The protocol keyword that gives a listener its flags.
ProtoOf(l) ==
    CASE l.ssl = 1 /\ l.http = 1 -> "https"
      [] l.ssl = 1 /\ l.pop3 = 1 -> "pop3s"
      [] l.ssl = 1 /\ l.smtp = 1 -> "smtps"
      [] l.ssl = 1 -> "ssl"
      [] l.http = 1 -> "http"
      [] l.upgrade = 1 -> "autossl"
      [] l.pop3 = 1 -> "pop3"
      [] l.smtp = 1 -> "smtp"
      [] OTHER -> "tcp"

\* The last directive was a one-line declaration with an sni target.
SNILine == last.name = "ProxySpec" /\ "sni" \in Range(last.value)

\* C14: an SNI target, the SNIPort directive of a block or "sni <port>" on a
\* one-line declaration, is accepted only for a listener of protocol ssl or
\* https, and is rejected with -1 for the seven other protocols.
C14_SNIOnlySSLOrHTTPS ==
    /\ Returned("SNIPort", 0) => ProtoOf(specs[1]) \in {"ssl", "https"}
    /\ SNILine /\ last.rv = 0 => ProtoOf(specs[1]) \in {"ssl", "https"}
    /\ SNILine /\ last.value[1] \in Protos \ {"ssl", "https"} => last.rv = -1

\* The target-resolution policies a listener has set.
Policies(l) ==
    {p \in {"target", "nat", "sni"} :
        \/ p = "target" /\ l.connect # ""
        \/ p = "nat" /\ l.natengine # ""
        \/ p = "sni" /\ l.sni_port # 0}

\* C15: every listener has at most one target-resolution policy set, among
\* the explicit target address, the NAT engine name and the SNI port.
C15_OnePolicy ==
    \A l \in Listeners : Cardinality(Policies(l)) <= 1

\* C19: in a block a Port directive is accepted exactly when an Addr
\* directive has been accepted before it, and a TargetPort directive only
\* when a TargetAddr directive has been accepted before it; without, each
\* returns -1.
C19_PortAfterAddr ==
    [][pc = "block" =>
        /\ last'.name = "Port" => (last'.rv = 0 <=> "Addr" \in seen)
        /\ last'.name = "Port" /\ "Addr" \notin seen => last'.rv = -1
        /\ last'.name = "TargetPort" /\ last'.rv = 0 => "TargetAddr" \in seen
        /\ last'.name = "TargetPort" /\ "TargetAddr" \notin seen => last'.rv = -1]_vars

\* A TargetPort directive accepted after TargetAddr, in a block whose Port
\* directive was accepted after Addr.
C19_Witness ==
    /\ pc = "block" /\ Returned("TargetPort", 0)
    /\ seen = AddrNames
    /\ specs[1].listen = "127.0.0.1:8443" /\ specs[1].connect = "192.168.0.1:443"

(***************************************************************************)
(* Properties of the user lists.                                           *)
(***************************************************************************)
UserLists == [divertusers |-> "DivertUsers", passusers |-> "PassUsers"]

\* C12: a listener whose block names no user list holds the DivertUsers and
\* PassUsers lists of the global Options at its declaration, the same users
\* in the same order, so that both print as the same text.
C12_ClonedUserLists ==
    \A l \in Listeners : \A f \in DOMAIN UserLists :
        UserLists[f] \notin l.named =>
            /\ l.opts[f] = l.own[f]
            /\ users_str(l.opts[f]) = users_str(l.own[f])

\* The names a value lists: its words without their commas.
Names(value) == UserTokens(value)

\* C20: a DivertUsers or PassUsers directive with more than 50 names or with
\* none returns -1 and leaves the list as it was; with 1 to 50 names it
\* returns 0 and the list, inherited or not, becomes the names given, in the
\* order given.
C20_UserListReplaced ==
    [][\A f \in DOMAIN UserLists :
        last'.name = UserLists[f] /\ pc \in {"top", "block"} =>
            LET before == IF pc = "block" THEN specs[1].opts[f] ELSE gopts[f]
                after == IF pc = "block" THEN specs'[1].opts[f] ELSE gopts'[f]
                n == Len(Names(last'.value))
            IN  /\ n > 50 \/ n = 0 => last'.rv = -1 /\ after = before
                /\ n \in 1..50 => last'.rv = 0 /\ after = Names(last'.value)]_vars

\* A block has replaced the 50 users its listener inherited by one name.
C20_Witness ==
    /\ pc = "block" /\ Returned("DivertUsers", 0)
    /\ Len(specs[1].own.divertusers) = 50
    /\ specs[1].opts.divertusers = <<"www">>

(***************************************************************************)
(* Properties of the directives as text.                                   *)
(***************************************************************************)
\* The directive names of the configuration file grammar.
Grammar ==
    {"CACert", "CAKey", "CAChain", "ClientCert", "ClientKey", "LeafKey",
     "LeafKeyRSABits", "LeafCRLURL", "LeafCertDir", "DefaultLeafCert",
     "WriteGenCertsDir", "WriteAllCertsDir", "DenyOCSP", "Passthrough",
     "DHGroupParams", "ECDHCurve", "SSLCompression", "ForceSSLProto",
     "DisableSSLProto", "EnableSSLProto", "MinSSLProto", "MaxSSLProto", "Ciphers",
     "CipherSuites", "NATEngine", "User", "Group", "Chroot", "PidFile", "ConnectLog",
     "ContentLog", "ContentLogDir", "ContentLogPathSpec", "LogProcInfo",
     "MasterKeyLog", "PcapLog", "PcapLogDir", "PcapLogPathSpec", "MirrorIf",
     "MirrorTarget", "Daemon", "Debug", "DebugLevel", "ConnIdleTimeout",
     "ExpiredConnCheckPeriod", "LogStats", "StatsPeriod", "RemoveHTTPAcceptEncoding",
     "RemoveHTTPReferer", "VerifyPeer", "AllowWrongHost", "UserAuth", "UserAuthURL",
     "UserTimeout", "UserDBPath", "DivertUsers", "PassUsers", "ValidateProto",
     "MaxHTTPHeaderSize", "OpenFilesLimit", "Divert", "Define", "Include", "PassSite",
     "Split", "Pass", "Block", "Match", "FilterRule", "ProxySpec"}

\* The directive handled last was a line of a configuration file.
ConfDirective == last.name # "" /\ last.via = "conf"

\* C16: a line of a configuration file whose name the grammar lists
\* (EnableSSLProto among them), with a value its setter takes, is accepted at
\* global scope; a line with any other name returns -1.
C16_GrammarRecognised ==
    ConfDirective =>
        IF last.name \in Grammar THEN last.rv = 0 ELSE last.rv = -1

\* What the directive handled last has left, and what it leaves as a line
\* of a configuration file and as an option of the command line.
Now == [St EXCEPT !.crash = (pc = "crashed")]
AsLine == IF last.via = "conf" THEN Now ELSE twin
AsArg == IF last.via = "cmdline" THEN Now ELSE twin

\* C17: a directive that is accepted as the line NAME VALUE of a
\* configuration file is accepted as the option NAME=VALUE of the command
\* line, with the same return value and the same global state after it, both
\* forms of ProxySpec included.
C17_SameOnCommandLine ==
    (last.name # "" /\ AsLine.rv = 0) => AsArg = AsLine

(***************************************************************************)
(* Properties of the numeric directives.                                   *)
(***************************************************************************)
\* The range of each numeric directive.
NumericRange ==
    [UserTimeout |-> 0..86400, MaxHTTPHeaderSize |-> 1024..65536,
     ConnIdleTimeout |-> 10..3600, ExpiredConnCheckPeriod |-> 10..60,
     StatsPeriod |-> 1..10, LeafKeyRSABits |-> {1024, 2048, 3072, 4096},
     OpenFilesLimit |-> 50..10000]

\* The value a numeric directive has stored.
NumericField(name, gl, g) ==
    CASE name = "UserTimeout" -> g.user_timeout
      [] name = "MaxHTTPHeaderSize" -> g.max_http_header_size
      [] name = "LeafKeyRSABits" -> gl.leafkey_rsabits
      [] OTHER -> gl[GlobalNumbers[name].field]

\* The stored value is in the range of the directive; the limit of open files
\* is the limit of the system until a directive sets it.
NumericInRange(name, gl, g) ==
    \/ NumericField(name, gl, g) \in NumericRange[name]
    \/ name = "OpenFilesLimit" /\ NumericField(name, gl, g) = 0

\* The number a decimal numeral stands for, as far as the ranges can tell:
\* -1 for a negative one, 10^9 for one of ten characters or more.
RECURSIVE DecimalFrom(_, _, _)
DecimalFrom(s, k, acc) ==
    IF k > Len(s) THEN acc ELSE DecimalFrom(s, k + 1, acc * 10 + DigitVal(CharAt(s, k)))
Decimal(s) ==
    IF FirstChar(s) = "-" THEN -1
    ELSE IF Len(s) > 9 THEN 1000000000
    ELSE DecimalFrom(s, 1, 0)

\* C18: a numeric directive whose value lies in its range returns 0 and stores
\* the value; with a value outside the range, a negative one included, it
\* returns -1 and leaves the stored value as it was; every stored value,
\* the defaults included, is in its range.
C18_NumericRanges ==
    /\ \A n \in DOMAIN NumericRange : NumericInRange(n, global, gopts)
    /\ [][/\ \A n \in DOMAIN NumericRange : NumericInRange(n, global', gopts')
          /\ last'.name \in DOMAIN NumericRange =>
                IF Decimal(last'.value[1]) \in NumericRange[last'.name]
                THEN /\ last'.rv = 0
                     /\ NumericField(last'.name, global', gopts')
                            = Decimal(last'.value[1])
                ELSE /\ last'.rv = -1
                     /\ NumericField(last'.name, global', gopts')
                            = NumericField(last'.name, global, gopts)]_vars

(***************************************************************************)
(* Properties of the Include directive.                                    *)
(***************************************************************************)
\* The step reads a line with an Include directive.
IncludeMet == last'.name = "Include" /\ nlines' = nlines + 1

\* C11: an Include directive met while an included file is loaded returns
\* -1; in the top-level file it is accepted, the file named is loaded, also
\* after an earlier included file; when an included file has been loaded,
\* with success or with an error, the flag is clear again.
C11_IncludeNesting ==
    [][/\ IncludeMet /\ include.depth > 0 => last'.rv = -1 /\ pc' = "failed"
       /\ IncludeMet /\ include.depth = 0 /\ ~Missing(last'.value) =>
            last'.rv = 0 /\ pc' = "top" /\ include'.depth = 1 /\ include'.flag = 1
       /\ include'.depth < include.depth => include'.flag = 0 /\ include'.depth = 0
       /\ include'.depth = 0 => include'.flag = 0]_vars

\* An Include directive of the top-level file is being loaded after an
\* earlier included file has been loaded to its end.
C11_Witness ==
    /\ include.done = 1 /\ include.depth = 1 /\ include.flag = 1
    /\ Returned("Include", 0) /\ pc = "top"

(***************************************************************************)
(* Properties of the rule directives in a configuration file.              *)
(***************************************************************************)
RuleNames == {"Divert", "Split", "Pass", "Block", "Match"}

\* The step handles a line with a filter rule, at global scope or in a block.
RuleMet ==
    /\ pc \in {"top", "block"} /\ last'.name \in RuleNames /\ nlines' + blines' > nlines + blines
    /\ is_yesno(last'.value) = -1

\* The rules of the Options of the scope the step is in, before and after it.
ScopeRules == IF pc = "block" THEN specs[1].opts.filter_rules ELSE gopts.filter_rules
ScopeRulesAfter == IF pc = "block" THEN specs'[1].opts.filter_rules ELSE gopts'.filter_rules

\* C21: a rule directive returns 1 exactly when its text is accepted and a
\* macro was expanded, 0 when a text without macro is accepted, -1 when the
\* text is rejected and no rule is added; after 0 and after 1 the file, the
\* block and the Include directive around it go on with the next line.
C21_MacroReturnIsSuccess ==
    [][/\ RuleMet =>
            /\ last'.rv \in {-1, 0, 1}
            /\ last'.rv = 1 <=> (ScopeRulesAfter # ScopeRules /\ AnyMacro(last'.value))
            /\ last'.rv = 0 <=> (ScopeRulesAfter # ScopeRules /\ ~AnyMacro(last'.value))
            /\ last'.rv = -1 <=> ScopeRulesAfter = ScopeRules
            /\ last'.rv = -1 => pc' = "failed"
            /\ last'.rv # -1 => pc' = pc /\ (pc = "top" => retval' = last'.rv)
       /\ (include'.depth < include.depth /\ retval = 1) =>
            pc' = "top" /\ last'.rv = 1]_vars

\* An included file whose last line is a rule with a macro has been loaded:
\* the Include directive has returned 1 and the top-level file goes on.
C21_Witness ==
    /\ include.done = 1 /\ Returned("Include", 1) /\ pc = "top"
    /\ Len(gopts.filter_rules) = 2 /\ Len(gopts.macro) = 1

\* The Options of the scope the step is in, before and after it.
ScopeOpts == IF pc = "block" THEN specs[1].opts ELSE gopts
ScopeOptsAfter == IF pc = "block" THEN specs'[1].opts ELSE gopts'

\* C22: a Divert directive with the value yes or no sets the divert flag of
\* the Options of its scope and changes nothing else of them; with any other
\* value it is a Divert rule: the flag stays, and the Options change only by
\* the Divert rules added, none when the rule is rejected.
C22_DivertToggleOrRule ==
    [][(pc \in {"top", "block"} /\ last'.name = "Divert"
            /\ nlines' + blines' > nlines + blines) =>
          IF last'.value \in {<<"yes">>, <<"no">>}
          THEN /\ last'.rv = 0
               /\ ScopeOptsAfter
                    = [ScopeOpts EXCEPT !.divert = IF last'.value = <<"yes">> THEN 1 ELSE 0]
          ELSE /\ ScopeOptsAfter.divert = ScopeOpts.divert
               /\ ScopeOptsAfter
                    = [ScopeOpts EXCEPT !.filter_rules = ScopeOptsAfter.filter_rules]
               /\ last'.rv = -1 => ScopeOptsAfter = ScopeOpts
               /\ last'.rv # -1 =>
                    /\ Len(ScopeOptsAfter.filter_rules) > Len(ScopeOpts.filter_rules)
                    /\ \A k \in 1..Len(ScopeOptsAfter.filter_rules) :
                          k <= Len(ScopeOpts.filter_rules)
                          \/ ScopeOptsAfter.filter_rules[k].action = "Divert"]_vars

\* In a block a Divert rule has been added to a listener whose divert flag is
\* still the one it inherited.
C22_Witness ==
    /\ pc = "block" /\ Returned("Divert", 0)
    /\ last.value = <<"from", "ip", "192.168.0.1">>
    /\ specs[1].opts.divert = 1 /\ specs[1].setting = 1
    /\ Len(specs[1].opts.filter_rules) = 1
    /\ specs[1].opts.filter_rules[1].action = "Divert"

(***************************************************************************)
(* Properties of the construction.                                         *)
(***************************************************************************)
\* No line has been read: the configuration is as constructed.
Fresh == nlines = 0 /\ last = NoLine

\* C23: the configuration as constructed has the documented defaults: divert,
\* SSL compression, peer verification, removal of the HTTP Referer and of the
\* HTTP Accept-Encoding and LogStats on; UserAuth, ValidateProto,
\* AllowWrongHost, Passthrough and DenyOCSP off; minimum TLS 1.0, user
\* timeout 300, maximum HTTP header size 8192, ConnIdleTimeout 120,
\* ExpiredConnCheckPeriod 10, StatsPeriod 1.
C23_DocumentedDefaults ==
    Fresh =>
        /\ gopts.divert = 1 /\ gopts.sslcomp = 1 /\ gopts.verify_peer = 1
        /\ gopts.remove_http_referer = 1 /\ gopts.remove_http_accept_encoding = 1
        /\ global.statslog = 1
        /\ gopts.user_auth = 0 /\ gopts.validate_proto = 0
        /\ gopts.allow_wrong_host = 0 /\ gopts.passthrough = 0 /\ gopts.deny_ocsp = 0
        /\ gopts.minsslversion = "tls10"
        /\ gopts.user_timeout = 300 /\ gopts.max_http_header_size = 8192
        /\ global.conn_idle_timeout = 120 /\ global.expired_conn_check_period = 10
        /\ global.stats_period = 1

(***************************************************************************)
(* Properties of the listeners.                                            *)
(***************************************************************************)
\* C28: in every state, whatever the order and the repetition of `Proto` and
\* `SNIPort` in a ProxySpec block and for every one-line declaration, a
\* listener that resolves its target by SNI (dns set, SNI port non-zero) has
\* its ssl flag set.
C28_SniListenerIsSsl ==
    \A i \in 1..Len(specs) :
        (specs[i].dns = 1 /\ specs[i].sni_port # 0) => specs[i].ssl = 1

(***************************************************************************)
(* Properties of opts_load_conffile().                                     *)
(***************************************************************************)
\* opts_load_conffile() returns from an included file to its Include line.
Returns == include'.done = include.done + 1

\* C26: a configuration file that was opened returns -1 only if one of its
\* directive lines was rejected; an included file with no directive line
\* (empty, or blank lines and comments only) loads successfully and leaves
\* the configuration as it was.
C26_FailsOnlyOnRejectedLine ==
    [][Returns =>
        /\ last'.rv = -1 => pc = "failed"
        /\ (last.name = "Include" /\ last.rv = 0) =>
              /\ last'.rv # -1 /\ pc' = "top"
              /\ gopts' = gopts /\ global' = global /\ specs' = specs
              /\ natengine' = natengine]_vars

(***************************************************************************)
(* Properties of the ProxySpec block.                                      *)
(***************************************************************************)
\* C25: a directive that a ProxySpec block accepts affects only the listener
\* being declared: the global options, the default NAT engine that later
\* listeners take, and every earlier listener are after it as before it, so
\* that they are after the block closes as they were when it opened.
C25_BlockIsLocal ==
    [][(pc = "block" /\ last'.rv # -1) =>
          /\ gopts' = gopts /\ global' = global
          /\ natengine' = natengine
          /\ Tail(specs') = Tail(specs)]_vars

(***************************************************************************)
(* The text of one directive: a name, a gap of separators and blanks, and  *)
(* a value, split by get_name_value() with the separator of the            *)
(* configuration file (a space) or of the command line ("=").              *)
(***************************************************************************)
MaxGap == 2

\* The gaps of n characters for the separator sep.
RECURSIVE GapsOf(_, _)
GapsOf(n, sep) ==
    IF n = 0 THEN {""} ELSE {g \o c : g \in GapsOf(n - 1, sep), c \in {" ", "\t", sep}}

TextNames == {"Divert", "UserAuthURL"}
TextValues ==
    {"yes", "from ip $ips", "$ips 192.168.0.1 192.168.0.2", "tls1.2", "a=b",
     "https://192.168.0.1/userdblogin.php?next=", "=x", "x==", "* *"}

Texts ==
    {[name |-> n, gap |-> g, value |-> v, sep |-> sep] :
        n \in TextNames, v \in TextValues,
        g \in UNION {GapsOf(k, " ") \cup GapsOf(k, "=") : k \in 1..MaxGap},
        sep \in {" ", "="}}

\* The text drawn is NAME sep VALUE for its separator: the gap holds the
\* separator and blanks only.
WellSeparated(t) == t.gap \in UNION {GapsOf(k, t.sep) : k \in 1..MaxGap}

\* get_name_value() splits the text drawn.
NameValue ==
    /\ pc = "top" /\ last = NoLine
    /\ \E r \in {get_name_value(arg.name \o arg.gap \o arg.value, arg.sep)} :
          /\ last' = [name |-> r.name, value |-> <<r.value>>, rv |-> r.rv]
          /\ retval' = r.rv
          /\ pc' = IF r.rv = -1 THEN "failed" ELSE "top"
    /\ nlines' = nlines + 1
    /\ UNCHANGED <<cfam, split, gopts, natengine, specs, blines, addrs, seen, global,
                   twin, arg, include, parse>>
    /\ UNCHANGED fvars

InitText ==
    /\ cfam = "none" /\ split = 0
    /\ gopts = opts_new /\ natengine = "netfilter"
    /\ specs = <<>> /\ pc = "top" /\ nlines = 0 /\ blines = 0
    /\ addrs = spec_addrs_new /\ retval = -1
    /\ last = NoLine /\ seen = {} /\ global = global_new /\ twin = <<>>
    /\ arg \in {t \in Texts : WellSeparated(t)} /\ include = NoInclude /\ parse = NoParse
    /\ ftest = 0 /\ ffam = "none" /\ FilterIdle

NextText == NameValue

SpecText == InitText /\ [][NextText]_vars

\* C30: for the text NAME sep VALUE, whatever the number of separators and
\* blanks between the two and for both separators, get_name_value() returns 0
\* with exactly NAME and exactly VALUE; its right trim does not go before the
\* first character of the value.
C30_ExactNameAndValue ==
    last # NoLine =>
        /\ last.rv = 0 /\ last.name = arg.name
        /\ last.value = <<arg.value>>
        /\ last.value[1] # "" /\ CharAt(last.value[1], 1) = CharAt(arg.value, 1)

(***************************************************************************)
(* proxyspec_parse() token by token, on the defaults: one step of the      *)
(* loop at a time, then the code behind the loop.  The tokens are a        *)
(* declaration begun well or badly and every tail of up to MaxTail tokens, *)
(* or one of the longer declarations of ParseSamples; the default NAT      *)
(* engine is one nat_exist() knows or one a NATEngine directive has set.   *)
(***************************************************************************)
MaxTail == 2

ParseTokens ==
    {"https", "tcp", "127.0.0.1", "8443", "up:8080", "ua:127.0.0.1", "ra:127.0.0.1",
     "tproxy", "sni"}

ParseHeads ==
    {<<>>, <<"https">>, <<"https", "127.0.0.1">>, <<"https", "127.0.0.1", "8443">>,
     <<"tcp", "127.0.0.1", "8443">>, <<"https", "127.0.0.1", "8443", "up:8080">>}

RECURSIVE Tails(_)
Tails(n) == IF n = 0 THEN {<<>>} ELSE {<<>>} \cup {<<t>> \o w : t \in ParseTokens, w \in Tails(n - 1)}

ParseSamples ==
    {<<"https", "127.0.0.1", "8443", "up:8080", "ua:127.0.0.1", "ra:127.0.0.1",
       "192.168.0.1", "443">>,
     <<"https", "127.0.0.1", "8443", "up:8080", "ua:127.0.0.1", "ra:127.0.0.1",
       "sni", "443">>,
     <<"https", "127.0.0.1", "8443", "up:8080", "ua:127.0.0.1", "ra:127.0.0.1",
       "tproxy", "ssl", "127.0.0.1", "8444">>,
     <<"https", "127.0.0.1", "8443", "up:8080", "ra:127.0.0.1", "ua:127.0.0.1">>,
     <<"https", "127.0.0.1", "8443", "up:8080", "ssl", "127.0.0.1", "8444", "up:8080">>,
     <<"smtps", "127.0.0.1", "8465", "pop3s", "127.0.0.1", "8995", "sni", "995">>,
     <<"imap", "127.0.0.1", "8143">>}

ParseLines == {h \o w : h \in ParseHeads, w \in Tails(MaxTail)} \cup ParseSamples

\* The places of argv one step of the loop reads, the switch entered with
\* the locals ps: the current token, and behind up: the token after it for
\* ua: and the one after that, or the same one, for ra:, while tokens are left.
parse_looks(ps, argv) ==
    LET up == ps.state = 3 /\ Contains(argv[ps.argv], "up:")
        ua == up /\ ps.argc > 0 /\ Contains(argv[ps.argv + 1], "ua:")
        p1 == IF ua THEN [ps EXCEPT !.argv = @ + 1, !.argc = @ - 1] ELSE ps
    IN  {ps.argv} \cup (IF up /\ ps.argc > 0 THEN {ps.argv + 1} ELSE {})
                  \cup (IF up /\ p1.argc > 0 THEN {p1.argv + 1} ELSE {})

\* One step of the loop: the current token, and a ua: and ra: behind up:.
ParseToken ==
    /\ pc = "parse" /\ parse.ps.argc > 0
    /\ \E r \in {parse_token([parse.ps EXCEPT !.argc = @ - 1], specs, parse.argv, gopts,
                             natengine)} :
          /\ specs' = r.specs
          /\ parse' =
                [parse EXCEPT
                    !.ps = IF r.rv = -1 THEN r.ps ELSE [r.ps EXCEPT !.argv = @ + 1],
                    !.handled = [k \in DOMAIN parse.argv |->
                                    IF k = parse.ps.argv
                                       \/ (k > parse.ps.argv /\ k <= r.ps.argv)
                                    THEN parse.handled[k] + 1 ELSE parse.handled[k]],
                    !.looked = @ \cup parse_looks([parse.ps EXCEPT !.argc = @ - 1],
                                                  parse.argv)]
          /\ pc' = IF r.rv = -1 THEN "failed" ELSE "parse"
          /\ retval' = r.rv
          /\ last' = IF r.rv = -1
                     THEN [name |-> "ProxySpec", value |-> parse.argv, rv |-> -1]
                     ELSE last
    /\ UNCHANGED <<cfam, split, gopts, natengine, nlines, blines, addrs, seen, global,
                   twin, arg, include>>
    /\ UNCHANGED fvars

\* No token is left: the code behind the loop.
ParseEnd ==
    /\ pc = "parse" /\ parse.ps.argc = 0
    /\ \E r \in {parse_end(parse.ps, specs, split)} :
          /\ specs' = r.specs
          /\ pc' = IF r.rv = -1 THEN "failed" ELSE "top"
          /\ retval' = r.rv
          /\ last' = [name |-> "ProxySpec", value |-> parse.argv, rv |-> r.rv]
    /\ nlines' = nlines + 1
    /\ UNCHANGED <<cfam, split, gopts, natengine, blines, addrs, seen, global, twin, arg,
                   include, parse>>
    /\ UNCHANGED fvars

InitParse ==
    /\ cfam = "none" /\ split = 0
    /\ gopts = opts_new /\ natengine \in NatEngines \cup {"pf"}
    /\ specs = <<>> /\ pc = "parse" /\ nlines = 0 /\ blines = 0
    /\ addrs = spec_addrs_new /\ retval = -1
    /\ last = NoLine /\ seen = {} /\ global = global_new /\ twin = <<>>
    /\ arg = NoArg /\ include = NoInclude
    /\ \E argv \in ParseLines :
          parse = [argv |-> argv, ps |-> parse_new(Len(argv)),
                   handled |-> [k \in DOMAIN argv |-> 0], looked |-> {}]
    /\ ftest = 0 /\ ffam = "none" /\ FilterIdle

NextParse == ParseToken \/ ParseEnd

SpecParse == InitParse /\ [][NextParse]_vars /\ WF_vars(NextParse)

(***************************************************************************)
(* Properties of proxyspec_parse().                                        *)
(***************************************************************************)
\* proxyspec_parse() has returned 0.
Parsed == pc = "top" /\ last.name = "ProxySpec" /\ last.value = parse.argv

\* C27: when a one-line declaration names a NAT engine, whatever the default
\* NAT engine is, the NAT engine of the listener is the engine named and the
\* listener has no explicit target address.
C27_EngineNamed ==
    (/\ Parsed /\ Len(specs) = 1
     /\ nat_exist(parse.argv[Len(parse.argv)])) =>
        /\ specs[1].natengine = parse.argv[Len(parse.argv)]
        /\ specs[1].connect = ""

\* The places past one listener that begins at place i of argv: a protocol, a
\* listen address, a listen port, then optionally up:port with an optional
\* ua:addr and an optional ra:addr behind it, then at most one of a NAT
\* engine name, a target address with a port, and sni with a port.
ListenerEnds(argv, i) ==
    LET At(k) == IF k \in DOMAIN argv THEN argv[k] ELSE ""
        Tagged(k, tag) == Len(At(k)) > 3 /\ SubSeq(At(k), 1, 3) = tag
        Up(k) == Tagged(k, "up:") /\ IsPort(Skip(At(k), 3))
        Ua(k) == Tagged(k, "ua:") /\ IsAddr(Skip(At(k), 3))
        Ra(k) == Tagged(k, "ra:") /\ IsAddr(Skip(At(k), 3))
        AfterUp == {i + 3}
                   \cup {k \in {i + 4} : Up(i + 3)}
                   \cup {k \in {i + 5} : Up(i + 3) /\ (Ua(i + 4) \/ Ra(i + 4))}
                   \cup {k \in {i + 6} : Up(i + 3) /\ Ua(i + 4) /\ Ra(i + 5)}
    IN  IF ~(At(i) \in Protos /\ IsAddr(At(i + 1)) /\ IsPort(At(i + 2))) THEN {}
        ELSE UNION {{u} \cup {k \in {u + 1} : nat_exist(At(u))}
                        \cup {k \in {u + 2} : IsAddr(At(u)) /\ IsPort(At(u + 1))}
                        \cup {k \in {u + 2} : At(u) = "sni" /\ IsPort(At(u + 1))} :
                    u \in AfterUp}

\* The tokens of argv from place i on are listeners, one after the other.
RECURSIVE Listeners_from(_, _)
Listeners_from(argv, i) ==
    \/ i = Len(argv) + 1
    \/ \E j \in ListenerEnds(argv, i) : j <= Len(argv) + 1 /\ Listeners_from(argv, j)

\* C24: proxyspec_parse() returns 0 exactly when its tokens are listeners one
\* after the other, each a protocol, a listen address, a listen port,
\* optionally up:port with optional ua: and ra:, then at most one of a NAT
\* engine name, a target address with port, and sni with port; it returns -1
\* otherwise, and for no token it returns 0 and creates no listener.
C24_AcceptsTheGrammar ==
    (pc \in {"top", "failed"} /\ last.name = "ProxySpec") =>
        /\ last.rv = (IF Listeners_from(parse.argv, 1) THEN 0 ELSE -1)
        /\ parse.argv = <<>> => last.rv = 0 /\ specs = <<>>

\* C29: for every token sequence proxyspec_parse() terminates; its loop
\* stands on each token at most twice, and twice only on a protocol keyword
\* that ended the listener before it; it reads no place of argv past the last
\* token, the ua: and ra: look-ahead behind up: included.
C29_TerminatesInBounds ==
    /\ [](\A k \in DOMAIN parse.handled :
            /\ parse.handled[k] <= 2
            /\ parse.handled[k] = 2 => parse.argv[k] \in Protos)
    /\ [](parse.looked \subseteq DOMAIN parse.argv)
    /\ <>(pc # "parse")

\* A declaration of two listeners is accepted: the loop has stood twice on
\* the protocol of the second, which the look-ahead behind the first up: had
\* read, and the up: of the second is the last token.
C29_Witness ==
    /\ Parsed /\ Len(specs) = 2
    /\ parse.argv = <<"https", "127.0.0.1", "8443", "up:8080",
                      "ssl", "127.0.0.1", "8444", "up:8080">>
    /\ parse.handled = <<1, 1, 1, 1, 2, 1, 1, 1>>
    /\ parse.looked = 1..8

=============================================================================
